---------------------------- MODULE Spec2Model ----------------------------
(***************************************************************************)
(* Loot generator (lootgen.py) and encounter / five-room-dungeon generator *)
(* (encountergen.py) as state machines.                                    *)
(*                                                                         *)
(* Numbers.  Weights and levels are integers.  Money is counted in         *)
(* thousandths of a gold piece (mgp), so that 0.01 gp = 10 mgp and the     *)
(* rounding of total_value_gp to two decimals is a real operation.         *)
(*                                                                         *)
(* Randomness.  random.Random(seed) is a deterministic stream of draws     *)
(* fixed by the seed.  A draw is a raw value in 0..RawRange-1; the stream  *)
(* of a seed is its base-RawRange digits, repeated.  random() is           *)
(* raw/RawRange; randint(a,b) scales the raw value onto a..b (raw 0 gives  *)
(* a, the largest raw value gives b) and choice(seq) is seq[randint].      *)
(* Every API call consumes one position of the stream.                     *)
(***************************************************************************)
EXTENDS Integers, Sequences, FiniteSets, TLC

VARIABLES
    seed,       \* the seed the generator was constructed with
    pos,        \* number of draws the generator's rng has consumed
    ret,        \* what the last operation returned (or raised)
    hashOrder,  \* this process's iteration order of a set of strings
    req,        \* the request replayed in the comparison scenarios
    outs,       \* results recorded by the comparison scenarios
    cg          \* frame of a running _generate_coins loop

vars == <<seed, pos, ret, hashOrder, req, outs, cg>>

-----------------------------------------------------------------------------
(* Bounds of the model *)

RawRange == 4       \* resolution of one uniform draw
MaxSeed == 63       \* seeds 0..MaxSeed
MaxPool == 3        \* longest candidate list given to a selector on its own
MaxDenoms == 2      \* denominations of a coin table drawn for the coin loop
MaxDenomValue == 3  \* largest denomination value of such a table, in mgp
MaxCoinBudget == 4  \* largest coin budget of the coin loop's scenarios, in mgp
MaxLevel == 6       \* levels 1..MaxLevel are asked for
MaxRolls == 2       \* roll counts 0..MaxRolls are asked for

-----------------------------------------------------------------------------
(* Generic helpers *)

\* dict.get(key, default)
Get(rec, key, default) == IF key \in DOMAIN rec THEN rec[key] ELSE default

\* x or default, for a list-valued field: absent, null and [] all give default
GetOr(rec, key, default) ==
    IF key \in DOMAIN rec /\ rec[key] # <<>> THEN rec[key] ELSE default

Max(a, b) == IF a >= b THEN a ELSE b
Min(a, b) == IF a <= b THEN a ELSE b

Range(s) == {s[i] : i \in DOMAIN s}

RECURSIVE Pow(_, _)
Pow(b, e) == IF e = 0 THEN 1 ELSE b * Pow(b, e - 1)

-----------------------------------------------------------------------------
(* random.Random(seed) *)

Seeds == 0..MaxSeed
Raw == 0..(RawRange - 1)

\* number of base-RawRange digits that tell the seeds 0..MaxSeed apart
RECURSIVE DigitsFor(_, _)
DigitsFor(n, k) == IF Pow(RawRange, k) > n THEN k ELSE DigitsFor(n, k + 1)

TapePeriod == DigitsFor(MaxSeed, 1)

\* the i-th draw (i >= 1) of the stream of seed s
Tape(s, i) == (s \div Pow(RawRange, (i - 1) % TapePeriod)) % RawRange

\* rng.randint(a, b) at stream position p (p draws consumed so far), a <= b
RandInt(s, p, a, b) == a + ((Tape(s, p + 1) * (b - a)) \div (RawRange - 1))

\* rng.choice(seq) at stream position p, seq non-empty
Choice(s, p, seq) == seq[RandInt(s, p, 1, Len(seq))]

\* rng.random() < num/den at stream position p
RandomBelow(s, p, num, den) == Tape(s, p + 1) * den < num * RawRange

-----------------------------------------------------------------------------
(* encountergen._weighted_choice: items is a list of <<item, weight>> *)

RECURSIVE SumClamped(_, _)
SumClamped(items, i) ==
    IF i > Len(items) THEN 0
    ELSE Max(0, items[i][2]) + SumClamped(items, i + 1)

\* the scan "acc += max(0, w); if r <= acc: return item" from entry i on,
\* with r = raw * total / RawRange compared exactly
RECURSIVE EncScan(_, _, _, _, _)
EncScan(items, i, acc, raw, total) ==
    IF i > Len(items) THEN items[Len(items)][1]
    ELSE LET acc2 == acc + Max(0, items[i][2])
         IN  IF raw * total <= acc2 * RawRange THEN items[i][1]
             ELSE EncScan(items, i + 1, acc2, raw, total)

\* a selector that draws before it looks at the total
EncWeightedChoiceDrawFirst(items, s, p) ==
    LET total == SumClamped(items, 1)
    IN  IF total <= 0 THEN [val |-> items[1][1], pos |-> p + 1]
        ELSE [val |-> EncScan(items, 1, 0, Tape(s, p + 1), total), pos |-> p + 1]

EncWeightedChoice(items, s, p) ==
    LET total == SumClamped(items, 1)
    IN  IF total <= 0 THEN [val |-> items[1][1], pos |-> p]
        ELSE [val |-> EncScan(items, 1, 0, Tape(s, p + 1), total), pos |-> p + 1]

-----------------------------------------------------------------------------
(* lootgen._weighted_choice: items is a list of dicts with a "weight" field. *)
(* rng.choices(items, weights, k=1) is random.choices of Python 3.9 and      *)
(* later: cumulative weights, ValueError when their total is <= 0, then one  *)
(* draw and bisect_right over cum_weights[0..n-1).                           *)

LootWeight(it) == Get(it, "weight", 1)

RECURSIVE CumWeights(_, _, _)
CumWeights(items, i, acc) ==
    IF i > Len(items) THEN <<>>
    ELSE <<acc + LootWeight(items[i])>>
         \o CumWeights(items, i + 1, acc + LootWeight(items[i]))

\* bisect.bisect_right(a, x, lo, hi) with 0-based lo, hi and x = xnum/RawRange
RECURSIVE BisectRight(_, _, _, _)
BisectRight(a, xnum, lo, hi) ==
    IF lo >= hi THEN lo
    ELSE LET mid == (lo + hi) \div 2
         IN  IF xnum < a[mid + 1] * RawRange
             THEN BisectRight(a, xnum, lo, mid)
             ELSE BisectRight(a, xnum, mid + 1, hi)

LootWeightedChoice(items, s, p) ==
    IF items = <<>> THEN [err |-> "", val |-> <<>>, pos |-> p]
    ELSE LET cum == CumWeights(items, 1, 0)
             total == cum[Len(cum)]
         IN  IF total <= 0
             THEN [err |-> "ValueError", val |-> <<>>, pos |-> p]
             ELSE [err |-> "",
                   val |-> items[1 + BisectRight(cum, Tape(s, p + 1) * total,
                                                 0, Len(items) - 1)],
                   pos |-> p + 1]

-----------------------------------------------------------------------------
(* lootgen: level gate of magic items *)

LootDefaultMinLevel == 1
LootDefaultMaxLevel == 20

\* a gate that lets every item pass
FilterMagicKeepAll(items, level) == items

FilterMagicByLevel(items, level) ==
    LET Keep(it) == /\ Get(it, "min_level", LootDefaultMinLevel) <= level
                    /\ level <= Get(it, "max_level", LootDefaultMaxLevel)
    IN  SelectSeq(items, Keep)

-----------------------------------------------------------------------------
(* lootgen._generate_coins.  coin_values is the dict as a list of           *)
(* <<denomination, value>> in insertion order, values > 0 in mgp; the output *)
(* dict is the list of <<denomination, quantity>> in insertion order.        *)

\* sorted(coin_values.items(), key=lambda x: -x[1]): stable, highest first
RECURSIVE InsertDesc(_, _)
InsertDesc(sorted, c) ==
    IF sorted = <<>> THEN <<c>>
    ELSE IF c[2] > Head(sorted)[2] THEN <<c>> \o sorted
         ELSE <<Head(sorted)>> \o InsertDesc(Tail(sorted), c)

RECURSIVE SortCoins(_)
SortCoins(cv) ==
    IF cv = <<>> THEN <<>>
    ELSE InsertDesc(SortCoins(SubSeq(cv, 1, Len(cv) - 1)), cv[Len(cv)])

\* the loop's frame before the first iteration
CoinFrame(cv, budget, p) ==
    [active |-> TRUE, coins |-> SortCoins(cv), i |-> 1, remaining |-> budget,
     output |-> <<>>, pos |-> p]

\* the loop has left: the list is exhausted or "if remaining <= 0: break"
CoinLoopDone(f) == f.i > Len(f.coins) \/ f.remaining <= 0

\* an iteration whose quantity bound is rounded up
CoinIterRoundUp(f, s) ==
    LET value == f.coins[f.i][2]
        max_qty == (f.remaining + value - 1) \div value
        qty == RandInt(s, f.pos, 0, max_qty)
    IN  IF max_qty <= 0 THEN [f EXCEPT !.i = f.i + 1]
        ELSE IF qty > 0
             THEN [f EXCEPT !.i = f.i + 1, !.pos = f.pos + 1,
                            !.output = Append(f.output, <<f.coins[f.i][1], qty>>),
                            !.remaining = f.remaining - qty * value]
             ELSE [f EXCEPT !.i = f.i + 1, !.pos = f.pos + 1]

\* one iteration of "for coin, value in coins_sorted", taken when the loop
\* has not left
CoinIter(f, s) ==
    LET value == f.coins[f.i][2]
        max_qty == f.remaining \div value
        qty == RandInt(s, f.pos, 0, max_qty)
    IN  IF max_qty <= 0 THEN [f EXCEPT !.i = f.i + 1]
        ELSE IF qty > 0
             THEN [f EXCEPT !.i = f.i + 1, !.pos = f.pos + 1,
                            !.output = Append(f.output, <<f.coins[f.i][1], qty>>),
                            !.remaining = f.remaining - qty * value]
             ELSE [f EXCEPT !.i = f.i + 1, !.pos = f.pos + 1]

RECURSIVE RunCoinLoop(_, _)
RunCoinLoop(f, s) == IF CoinLoopDone(f) THEN f ELSE RunCoinLoop(CoinIter(f, s), s)

\* _generate_coins(rng, coin_values, budget_gp): [coins, pos]
GenerateCoins(cv, budget, s, p) ==
    LET f == RunCoinLoop(CoinFrame(cv, budget, p), s)
    IN  [coins |-> f.output, pos |-> f.pos]

\* coin_budget = base_budget * 0.20 (level budgets are multiples of 5 mgp)
CoinBudget(base_budget) == (base_budget * 20) \div 100

\* coin_values.get(denom, 0.0)
CoinValueOf(cv, denom) ==
    IF \E i \in DOMAIN cv : cv[i][1] = denom
    THEN cv[CHOOSE i \in DOMAIN cv : cv[i][1] = denom][2]
    ELSE 0

\* the coins part of _calculate_parcel_value
RECURSIVE CoinsValue(_, _, _)
CoinsValue(coins, cv, i) ==
    IF i > Len(coins) THEN 0
    ELSE CoinValueOf(cv, coins[i][1]) * coins[i][2] + CoinsValue(coins, cv, i + 1)

-----------------------------------------------------------------------------
(* lootgen: parcels.  An operation returns [err, msg, val, pos]: err is the  *)
(* type of the exception raised ("" when none), msg names the raise, val is  *)
(* the value returned and pos the rng position afterwards.                   *)

Ok(v, p) == [err |-> "", msg |-> "", val |-> v, pos |-> p]
Raise(type, m, p) == [err |-> type, msg |-> m, val |-> <<>>, pos |-> p]

\* round(x, 2) of an amount in mgp: to the nearest 10 mgp, halves to even
Round2(x) ==
    LET q == x \div 10
        r == x % 10
    IN  IF r < 5 THEN 10 * q
        ELSE IF r > 5 THEN 10 * (q + 1)
        ELSE IF q % 2 = 0 THEN 10 * q ELSE 10 * (q + 1)

RECURSIVE SumGpValue(_, _)
SumGpValue(its, i) ==
    IF i > Len(its) THEN 0
    ELSE Get(its[i], "gp_value", 0) + SumGpValue(its, i + 1)

\* a value computation that forgets the magic items
CalculateParcelValueNoMagic(parcel, cv) ==
    CoinsValue(Get(parcel, "coins", <<>>), cv, 1)
      + SumGpValue(Get(parcel, "mundane_items", <<>>), 1)

\* _calculate_parcel_value(parcel, coin_values)
CalculateParcelValue(parcel, cv) ==
    CoinsValue(Get(parcel, "coins", <<>>), cv, 1)
      + SumGpValue(Get(parcel, "magic_items", <<>>), 1)
      + SumGpValue(Get(parcel, "mundane_items", <<>>), 1)

\* _generate_parcel from "parcel['total_value_gp'] = ..." on: c is what
\* _generate_coins returned, magic the outcome of the 40% test and w what
\* _weighted_choice returned
ParcelOf(ld, c, magic, w) ==
    LET item == w.val
        parcel ==
            [coins |-> c.coins,
             magic_items |->
                 IF magic
                 THEN <<[id |-> item.id, name |-> item.name,
                         rarity |-> Get(item, "rarity", "common"),
                         gp_value |-> item.gp_value]>>
                 ELSE <<>>,
             mundane_items |->
                 IF magic THEN <<>>
                 ELSE <<[id |-> item.id, name |-> item.name,
                         gp_value |-> item.gp_value]>>]
    IN  IF w.err # "" THEN Raise(w.err, "total_of_weights", w.pos)
        ELSE IF "id" \notin DOMAIN item THEN Raise("KeyError", "id", w.pos)
        ELSE Ok([coins |-> parcel.coins,
                 magic_items |-> parcel.magic_items,
                 mundane_items |-> parcel.mundane_items,
                 total_value_gp |->
                     Round2(CalculateParcelValue(parcel, ld.coin_values_gp))],
                w.pos)

\* _generate_parcel from "if rng.random() < 0.4 and magic_pool" on
ParcelItem(ld, magic_pool, s, c, magic) ==
    ParcelOf(ld, c, magic,
             LootWeightedChoice(IF magic THEN magic_pool ELSE ld.mundane_goods,
                                s, c.pos + 1))

\* _generate_parcel from the coins on
ParcelAfterCoins(ld, magic_pool, s, c) ==
    ParcelItem(ld, magic_pool, s, c,
               RandomBelow(s, c.pos, 4, 10) /\ magic_pool # <<>>)

\* LootGenerator._generate_parcel
GenerateParcel(ld, base_budget, magic_pool, s, p) ==
    ParcelAfterCoins(ld, magic_pool, s,
                     GenerateCoins(ld.coin_values_gp, CoinBudget(base_budget), s, p))

\* the loop "for _ in range(rolls)" with k parcels still to make; r is the
\* parcel just made
RECURSIVE GenerateParcels(_, _, _, _, _, _, _)
ParcelsAfter(ld, base_budget, magic_pool, k, s, acc, r) ==
    IF r.err # "" THEN r
    ELSE GenerateParcels(ld, base_budget, magic_pool, k - 1, s, r.pos,
                         Append(acc, r.val))

GenerateParcels(ld, base_budget, magic_pool, k, s, p, acc) ==
    IF k = 0 THEN Ok(acc, p)
    ELSE ParcelsAfter(ld, base_budget, magic_pool, k, s, acc,
                      GenerateParcel(ld, base_budget, magic_pool, s, p))

\* generate() from the return on: n is the number of rolls made, r the parcels
LootResult(level, n, s, r) ==
    IF r.err # "" THEN r
    ELSE Ok([schema |-> "loot.v1", seed |-> s, encounter_level |-> level,
             rolls |-> n, parcels |-> r.val], r.pos)

\* a generator that takes the budget of the nearest configured level below
\* when the level has none
LootGenerateNearestLevel(ld, level, rolls, s) ==
    LET below == {n \in 0..level : ToString(n) \in DOMAIN ld.level_budgets_gp}
        nearest == CHOOSE n \in below : \A m \in below : m <= n
    IN  IF below = {} THEN Raise("ValueError", "level_not_found", 0)
        ELSE LootResult(level, Max(1, rolls), s,
                        GenerateParcels(ld, ld.level_budgets_gp[ToString(nearest)],
                                        FilterMagicByLevel(ld.magic_items, level),
                                        Max(1, rolls), s, 0, <<>>))

\* LootGenerator(loot_data, seed).generate(level, rolls)
LootGenerate(ld, level, rolls, s) ==
    IF ToString(level) \notin DOMAIN ld.level_budgets_gp
    THEN Raise("ValueError", "level_not_found", 0)
    ELSE LootResult(level, Max(1, rolls), s,
                    GenerateParcels(ld, ld.level_budgets_gp[ToString(level)],
                                    FilterMagicByLevel(ld.magic_items, level),
                                    Max(1, rolls), s, 0, <<>>))

-----------------------------------------------------------------------------
(* loot_data.json as the scenarios load it.  Amounts in mgp.                 *)

LootData ==
    [coin_values_gp |->
         << <<"cp", 10>>, <<"sp", 100>>, <<"gp", 1000>>, <<"pp", 10000>> >>,
     level_budgets_gp |->
         ("1" :> 1000) @@ ("2" :> 5000) @@ ("3" :> 10000) @@ ("5" :> 50000)
           @@ ("6" :> 100000),
     magic_items |->
         << [id |-> "wand", name |-> "Wand of Sparks", rarity |-> "rare",
             gp_value |-> 5000, min_level |-> 2, max_level |-> 3, weight |-> 2],
            [id |-> "ring", name |-> "Copper Ring", gp_value |-> 1234,
             min_level |-> 3] >>,
     mundane_goods |->
         << [id |-> "rope", name |-> "Rope", gp_value |-> 1000, weight |-> 0],
            [id |-> "gem", name |-> "Rough Gem", gp_value |-> 2506, weight |-> 3],
            [id |-> "lamp", name |-> "Lamp", gp_value |-> 500] >>]

-----------------------------------------------------------------------------
(* The encounter tables as the scenarios load them (Tables.load).  A table   *)
(* whose optional file is missing is the empty dict <<>>.  None is <<>> and  *)
(* a value v of an optional output field is <<v>>.                           *)

None == <<>>
Some(v) == <<v>>

EncounterTypes ==
    [tables |->
        << [id |-> "t_dungeon", biomes |-> <<"dungeon">>, die |-> 4,
            rows |-> << [min |-> 1, max |-> 2, type |-> "combat"],
                        [min |-> 3, max |-> 3, type |-> "puzzle"],
                        [min |-> 4, max |-> 4, type |-> "social"] >>],
           [id |-> "t_late", biomes |-> <<"any">>,
            slots |-> <<"puzzle", "setback", "aftermath">>,
            rows |-> << [min |-> 1, max |-> 6, type |-> "exploration"],
                        [max |-> 13, type |-> "trap"],
                        [min |-> 7, max |-> 12, type |-> "social"],
                        [min |-> 20, max |-> 20] >>] >>]

FiveRoomProgression ==
    [default_order |-> <<"entrance", "puzzle", "setback", "climax", "aftermath">>,
     slots |-> << <<"entrance", [difficulty_delta |-> 0]>>,
                  <<"puzzle", <<>> >>,
                  <<"setback", [difficulty_delta |-> 1]>>,
                  <<"climax", [difficulty_delta |-> 2]>>,
                  <<"aftermath", [difficulty_delta |-> -1]>> >>]

CombatBudgets == [budgets |-> ("2" :> 100) @@ ("3" :> 200) @@ ("5" :> 400)]

EncounterTemplates ==
    [encounter_tables |->
        << [id |-> "goblins_ambush", biomes |-> <<"dungeon">>,
            slots |-> <<"entrance", "puzzle", "setback">>,
            min_level |-> 1, max_level |-> 4, weight |-> 2,
            enemy_group_id |-> "goblin_pack", factions |-> <<"goblin_tribe">>,
            tags |-> <<"ambush">>, environment_tags |-> <<"dark">>,
            loot_rolls |-> 2, notes |-> "They wait behind the door."],
           [id |-> "rats", biomes |-> <<"dungeon">>, slots |-> <<"entrance">>,
            max_level |-> 2, weight |-> 3, enemy_group_id |-> "rat_swarm",
            factions |-> <<"vermin", "nobody">>],
           [id |-> "wolves", biomes |-> <<"forest">>, weight |-> 0,
            enemy_group_id |-> "wolf_pack", tags |-> <<"dark", "ambush">>,
            environment_tags |-> <<"dark">>],
           [id |-> "boss", slots |-> <<"climax">>, min_level |-> 3,
            enemy_group_id |-> "boss_group",
            factions |-> <<"undead", "goblin_tribe">>, tags |-> <<"dark">>,
            loot_rolls |-> 0],
           [id |-> "lost_patrol", biomes |-> <<"forest">>,
            slots |-> <<"aftermath">>, min_level |-> 2,
            enemy_group_id |-> "patrol"],
           [id |-> "nobody_home", biomes |-> <<"forest">>,
            slots |-> <<"aftermath">>, max_level |-> 1] >>]

EnemyGroups ==
    [groups |->
        << [id |-> "goblin_pack", faction |-> "goblin_tribe",
            enemies |-> << [monster_id |-> "goblin", count |-> [min |-> 1, max |-> 2]],
                           [monster_id |-> "worg", count |-> [min |-> 0, max |-> 1]] >>],
           [id |-> "rat_swarm",
            enemies |-> << [monster_id |-> "rat", count |-> [min |-> 2, max |-> 1]] >>],
           [id |-> "wolf_pack",
            enemies |-> << [monster_id |-> "wolf", count |-> [min |-> 0, max |-> 0]] >>],
           [id |-> "boss_group", faction |-> "undead",
            enemies |-> << [monster_id |-> "lich"],
                           [monster_id |-> "skeleton", count |-> [max |-> 2]] >>] >>]

\* cr in quarters
Monsters ==
    [monsters |->
        << [id |-> "goblin", name |-> "Goblin", cr |-> 1,
            faction |-> "goblin_tribe", tags |-> <<"humanoid">>],
           [id |-> "worg", name |-> "Worg", cr |-> 2],
           [id |-> "wolf", name |-> "Wolf", cr |-> 1, tags |-> <<"beast">>],
           [id |-> "lich", name |-> "Lich", cr |-> 84, faction |-> "undead"],
           [id |-> "skeleton", name |-> "Skeleton", cr |-> 1] >>]

\* weight modifiers are whole numbers in these tables
Factions ==
    [factions |->
        << [id |-> "goblin_tribe",
            weight_modifiers |-> [biomes |-> ("dungeon" :> 2),
                                  slots |-> ("setback" :> 0) @@ ("climax" :> 3)]],
           [id |-> "undead",
            weight_modifiers |-> [slots |-> ("climax" :> -1)]],
           [id |-> "vermin",
            weight_modifiers |-> [biomes |-> ("dungeon" :> -2)]] >>]

EnvironmentPresets ==
    [presets |->
        << [id |-> "crypt", biomes |-> <<"dungeon">>, tags |-> <<"dark">>,
            description |-> "A cold crypt.",
            mechanical_effects |-> [light |-> "dim"]],
           [id |-> "hall", biomes |-> <<"dungeon">>, tags |-> <<"ambush", "dark">>,
            description |-> "A pillared hall."],
           [id |-> "glade", biomes |-> <<"forest">>, tags |-> <<"ambush">>] >>]

PuzzleTables == <<>>

SocialTables ==
    [entries |->
        << [id |-> "parley", biomes |-> <<"dungeon">>, slots |-> <<"entrance">>,
            min_level |-> 2, weight |-> 1, tags |-> <<"dark">>,
            environment_tags |-> <<"ambush">>, award_loot |-> TRUE,
            loot_rolls |-> 1, notes |-> "A guard wants a bribe."],
           [id |-> "ghost", biomes |-> <<"dungeon">>, min_level |-> 2,
            max_level |-> 5, weight |-> 0, environment_preset_id |-> "crypt"],
           [id |-> "hermit", biomes |-> <<"forest">>, slots |-> <<"setback">>,
            environment_preset_id |-> "cave", tags |-> <<"ambush">>] >>]

ExplorationTables == [entries |-> <<>>]

Tables ==
    [encounter_types |-> EncounterTypes,
     five_room_progression |-> FiveRoomProgression,
     combat_budgets |-> CombatBudgets,
     encounter_templates |-> EncounterTemplates,
     enemy_groups |-> EnemyGroups,
     monsters |-> Monsters,
     factions |-> Factions,
     environment_presets |-> EnvironmentPresets,
     puzzle_tables |-> PuzzleTables,
     social_tables |-> SocialTables,
     exploration_tables |-> ExplorationTables]

\* _index_by_id(items).get(id): the last item of that id, <<>> when there is none
IndexGet(items, id) ==
    LET hits == {i \in DOMAIN items : "id" \in DOMAIN items[i] /\ items[i].id = id}
    IN  IF hits = {} THEN <<>>
        ELSE items[CHOOSE i \in hits : \A j \in hits : j <= i]

\* "any" in lst or x in lst
Matches(lst, x) == "any" \in Range(lst) \/ x \in Range(lst)

-----------------------------------------------------------------------------
(* EncounterGenerator._choose_encounter_type *)

DefaultDie == 20

\* the type of the first row whose [min, max] holds the roll, else "combat"
RECURSIVE RowType(_, _, _)
RowType(rows, i, roll) ==
    IF i > Len(rows) THEN "combat"
    ELSE LET rmin == Get(rows[i], "min", Get(rows[i], "max", 1))
             rmax == Get(rows[i], "max", rmin)
         IN  IF rmin <= roll /\ roll <= rmax
             THEN Get(rows[i], "type", "combat")
             ELSE RowType(rows, i + 1, roll)

\* a selection that rolls the die first and draws the table second
ChooseEncounterTypeRollFirst(T, slot, biome, s, p) ==
    LET tables == GetOr(T.encounter_types, "tables", <<>>)
        Fits(t) == /\ Matches(GetOr(t, "biomes", <<"any">>), biome)
                   /\ Matches(GetOr(t, "slots", <<"any">>), slot)
        fitting == SelectSeq(tables, Fits)
        candidates == IF fitting = <<>> THEN tables ELSE fitting
        table == Choice(s, p + 1, candidates)
        roll == RandInt(s, p, 1, Max(1, Get(table, "die", DefaultDie)))
    IN  IF tables = <<>> THEN [val |-> "combat", pos |-> p]
        ELSE [val |-> RowType(GetOr(table, "rows", <<>>), 1, roll), pos |-> p + 2]

ChooseEncounterType(T, slot, biome, s, p) ==
    LET tables == GetOr(T.encounter_types, "tables", <<>>)
        Fits(t) == /\ Matches(GetOr(t, "biomes", <<"any">>), biome)
                   /\ Matches(GetOr(t, "slots", <<"any">>), slot)
        fitting == SelectSeq(tables, Fits)
        candidates == IF fitting = <<>> THEN tables ELSE fitting
        table == Choice(s, p, candidates)
        roll == RandInt(s, p + 1, 1, Max(1, Get(table, "die", DefaultDie)))
    IN  IF tables = <<>> THEN [val |-> "combat", pos |-> p]
        ELSE [val |-> RowType(GetOr(table, "rows", <<>>), 1, roll), pos |-> p + 2]

-----------------------------------------------------------------------------
(* Candidate filters of combat templates and noncombat entries *)

DefaultMinLevel == 1
DefaultMaxLevel == 99

\* _generate_combat_encounter, the loop "for tpl in templates"
CombatCandidates(templates, level, biome, slot) ==
    LET Keep(tpl) ==
            /\ Matches(GetOr(tpl, "biomes", <<"any">>), biome)
            /\ Matches(GetOr(tpl, "slots", <<"any">>), slot)
            /\ Get(tpl, "min_level", DefaultMinLevel) <= level
            /\ level <= Get(tpl, "max_level", DefaultMaxLevel)
    IN  SelectSeq(templates, Keep)

\* _generate_noncombat_encounter, the loop "for tpl in entries"
NoncombatCandidates(entries, level, biome, slot) ==
    LET Keep(tpl) ==
            /\ Matches(GetOr(tpl, "biomes", <<"any">>), biome)
            /\ Matches(GetOr(tpl, "slots", <<"any">>), slot)
            /\ Get(tpl, "min_level", DefaultMinLevel) <= level
            /\ level <= Get(tpl, "max_level", DefaultMaxLevel)
    IN  SelectSeq(entries, Keep)

-----------------------------------------------------------------------------
(* EncounterGenerator._compute_faction_weight *)

RECURSIVE FactionProduct(_, _, _, _, _, _)
FactionProduct(known, factions, i, slot, biome, weight) ==
    IF i > Len(factions) THEN weight
    ELSE LET f == IndexGet(known, factions[i])
             mods == GetOr(f, "weight_modifiers", <<>>)
             biome_mods == GetOr(mods, "biomes", <<>>)
             slot_mods == GetOr(mods, "slots", <<>>)
             w1 == IF biome \in DOMAIN biome_mods
                   THEN weight * biome_mods[biome] ELSE weight
             w2 == IF slot \in DOMAIN slot_mods THEN w1 * slot_mods[slot] ELSE w1
         IN  IF f = <<>>
             THEN FactionProduct(known, factions, i + 1, slot, biome, weight)
             ELSE FactionProduct(known, factions, i + 1, slot, biome, w2)

\* a modifier that is passed on as it is, positive or not
ComputeFactionWeightNoReset(T, template, slot, biome) ==
    LET factions == GetOr(template, "factions", <<>>)
        known == Get(T.factions, "factions", <<>>)
    IN  IF factions = <<>> \/ known = <<>> THEN 1
        ELSE FactionProduct(known, factions, 1, slot, biome, 1)

ComputeFactionWeight(T, template, slot, biome) ==
    LET factions == GetOr(template, "factions", <<>>)
        known == Get(T.factions, "factions", <<>>)
        weight == FactionProduct(known, factions, 1, slot, biome, 1)
    IN  IF factions = <<>> \/ known = <<>> THEN 1
        ELSE IF weight > 0 THEN weight ELSE 1

-----------------------------------------------------------------------------
(* EncounterGenerator._instantiate_enemy_group *)

\* d.get(key), None when absent
Opt(rec, key) == IF key \in DOMAIN rec THEN Some(rec[key]) ELSE None

\* a loop that keeps the entries whose count is 0
RECURSIVE EnemyLoopKeepAll(_, _, _, _, _, _, _)
EnemyLoopKeepAll(T, group, entries, i, s, p, out) ==
    IF i > Len(entries) THEN [val |-> out, pos |-> p]
    ELSE LET entry == entries[i]
             count_cfg == GetOr(entry, "count", <<>>)
             cmin == Get(count_cfg, "min", 1)
             cmax == Max(cmin, Get(count_cfg, "max", cmin))
             monster == IndexGet(Get(T.monsters, "monsters", <<>>), entry.monster_id)
         IN  EnemyLoopKeepAll(
                 T, group, entries, i + 1, s, p + 1,
                 Append(out, [monster_id |-> entry.monster_id,
                              name |-> Get(monster, "name", entry.monster_id),
                              count |-> RandInt(s, p, cmin, cmax),
                              cr |-> Opt(monster, "cr"),
                              faction |-> Opt(group, "faction"),
                              tags |-> Get(monster, "tags", <<>>)]))

\* the loop "for entry in entries" from entry i on: [enemies, pos]
RECURSIVE EnemyLoop(_, _, _, _, _, _, _)
EnemyLoop(T, group, entries, i, s, p, out) ==
    IF i > Len(entries) THEN [val |-> out, pos |-> p]
    ELSE LET entry == entries[i]
             count_cfg == GetOr(entry, "count", <<>>)
             cmin == Get(count_cfg, "min", 1)
             cmax == Max(cmin, Get(count_cfg, "max", cmin))
             count == RandInt(s, p, cmin, cmax)
             monster == IndexGet(Get(T.monsters, "monsters", <<>>), entry.monster_id)
             enemy == [monster_id |-> entry.monster_id,
                       name |-> Get(monster, "name", entry.monster_id),
                       count |-> count,
                       cr |-> Opt(monster, "cr"),
                       faction |-> IF "faction" \in DOMAIN monster
                                   THEN Some(monster.faction)
                                   ELSE Opt(group, "faction"),
                       tags |-> Get(monster, "tags", <<>>)]
         IN  EnemyLoop(T, group, entries, i + 1, s, p + 1,
                       IF count <= 0 THEN out ELSE Append(out, enemy))

\* group_id is "" when the template has no enemy_group_id
InstantiateEnemyGroup(T, group_id, s, p) ==
    LET group == IndexGet(Get(T.enemy_groups, "groups", <<>>), group_id)
        r == EnemyLoop(T, group, GetOr(group, "enemies", <<>>), 1, s, p, <<>>)
    IN  IF group_id = "" THEN Raise("ValueError", "missing_enemy_group_id", p)
        ELSE IF group = <<>> THEN Raise("ValueError", "enemy_group_not_found", p)
        ELSE Ok(r.val, r.pos)

-----------------------------------------------------------------------------
(* EncounterGenerator._select_environment *)

NeutralEnvironment ==
    [preset_id |-> None, description |-> "", tags |-> <<>>,
     mechanical_effects |-> <<>>]

EnvironmentOf(env) ==
    [preset_id |-> Opt(env, "id"),
     description |-> Get(env, "description", ""),
     tags |-> Get(env, "tags", <<>>),
     mechanical_effects |-> Get(env, "mechanical_effects", <<>>)]

\* specific_id is "" when none is asked for: [val, pos]
SelectEnvironment(T, biome, tags, specific_id, s, p) ==
    LET presets == GetOr(T.environment_presets, "presets", <<>>)
        named == IndexGet(presets, specific_id)
        Fits(env) ==
            /\ Matches(GetOr(env, "biomes", <<"any">>), biome)
            /\ (tags = <<>> \/ Range(tags) \cap Range(GetOr(env, "tags", <<>>)) # {})
        fitting == SelectSeq(presets, Fits)
        candidates == IF fitting = <<>> THEN presets ELSE fitting
    IN  IF presets = <<>> THEN [val |-> NeutralEnvironment, pos |-> p]
        ELSE IF specific_id # "" /\ named # <<>>
             THEN [val |-> EnvironmentOf(named), pos |-> p]
             ELSE [val |-> EnvironmentOf(Choice(s, p, candidates)), pos |-> p + 1]

\* list(set(a + b)) in a process whose sets of strings iterate in order h
MergeTags(a, b, h) ==
    LET In(t) == t \in Range(a \o b)
    IN  SelectSeq(h, In)

-----------------------------------------------------------------------------
(* Encounters.  T is the loaded Tables, L the loot data generate_loot loads, *)
(* h the process's iteration order of sets of strings.                       *)

MaxSubSeed == 999999

\* _generate_empty_encounter
GenerateEmptyEncounter(level, biome, slot) ==
    [difficulty |-> level, type |-> "empty", slot |-> slot, biome |-> biome,
     enemies |-> <<>>, environment |-> NeutralEnvironment, tags |-> <<>>,
     loot |-> None,
     meta |-> [template_id |-> None, noncombat_id |-> None, notes |-> ""]]

\* weight if weight > 0 else 0.0, of base weight times faction modifier
TemplateWeight(T, tpl, slot, biome) ==
    LET weight == Get(tpl, "weight", 1) * ComputeFactionWeight(T, tpl, slot, biome)
    IN  IF weight > 0 THEN weight ELSE 0

\* _generate_combat_encounter from the return on: e is what
\* _instantiate_enemy_group returned, env what _select_environment returned
\* and loot what generate_loot returned
CombatResult(h, level, biome, slot, template, e, env, loot) ==
    IF loot.err # "" THEN Raise(loot.err, loot.msg, env.pos + 1)
    ELSE Ok([difficulty |-> level, type |-> "combat", slot |-> slot,
             biome |-> biome, enemies |-> e.val, environment |-> env.val,
             tags |-> MergeTags(GetOr(template, "tags", <<>>), env.val.tags, h),
             loot |-> Some(loot.val),
             meta |-> [template_id |-> Opt(template, "id"),
                       noncombat_id |-> None,
                       notes |-> Get(template, "notes", "")]],
            env.pos + 1)

\* a combat generator that hands its own seed to generate_loot
CombatLootOwnSeed(L, h, level, biome, slot, template, s, e, env) ==
    CombatResult(h, level, biome, slot, template, e, env,
                 LootGenerate(L, level, Get(template, "loot_rolls", 1), s))

\* _generate_combat_encounter from "loot = generate_loot(...)" on
CombatLoot(L, h, level, biome, slot, template, s, e, env) ==
    CombatResult(h, level, biome, slot, template, e, env,
                 LootGenerate(L, level, Get(template, "loot_rolls", 1),
                              RandInt(s, env.pos, 0, MaxSubSeed)))

\* _generate_combat_encounter from "env = self._select_environment(...)" on
CombatEnvironment(T, L, h, level, biome, slot, template, s, e) ==
    IF e.err # "" THEN e
    ELSE CombatLoot(L, h, level, biome, slot, template, s, e,
                    SelectEnvironment(T, biome,
                                      GetOr(template, "environment_tags", <<>>),
                                      "", s, e.pos))

\* _generate_combat_encounter from the chosen template c = [val, pos] on
CombatFromTemplate(T, L, h, level, biome, slot, s, c) ==
    CombatEnvironment(T, L, h, level, biome, slot, c.val, s,
                      InstantiateEnemyGroup(T, Get(c.val, "enemy_group_id", ""),
                                            s, c.pos))

\* _generate_combat_encounter once the candidates are known to exist: the
\* weighting, the selection and what follows it
CombatFromCandidates(T, L, h, level, biome, slot, candidates, s, p) ==
    CombatFromTemplate(
        T, L, h, level, biome, slot, s,
        EncWeightedChoice(
            [i \in 1..Len(candidates) |->
                <<candidates[i], TemplateWeight(T, candidates[i], slot, biome)>>],
            s, p))

\* _generate_combat_encounter
GenerateCombatEncounter(T, L, h, level, biome, slot, s, p) ==
    LET templates == GetOr(T.encounter_templates, "encounter_tables", <<>>)
        candidates == CombatCandidates(templates, level, biome, slot)
    IN  IF templates = <<>> THEN Raise("ValueError", "no_templates", p)
        ELSE IF candidates = <<>> THEN Raise("ValueError", "no_template_matches", p)
        ELSE CombatFromCandidates(T, L, h, level, biome, slot, candidates, s, p)

\* the table of a noncombat type
NoncombatTable(T, enc_type) ==
    IF enc_type = "puzzle" THEN T.puzzle_tables
    ELSE IF enc_type = "social" THEN T.social_tables
    ELSE T.exploration_tables

\* the weight of a noncombat candidate: float(tpl.get("weight", 1.0))
EntryWeight(tpl) == Get(tpl, "weight", 1)

\* _generate_noncombat_encounter from the return on: env is what
\* _select_environment returned, loot what generate_loot returned (read only
\* when the entry awards loot)
NoncombatResult(h, level, biome, slot, enc_type, template, env, loot) ==
    LET award_loot == Get(template, "award_loot", FALSE)
        end == IF award_loot THEN env.pos + 1 ELSE env.pos
    IN  IF award_loot /\ loot.err # "" THEN Raise(loot.err, loot.msg, end)
        ELSE Ok([difficulty |-> level, type |-> enc_type, slot |-> slot,
                 biome |-> biome, enemies |-> <<>>, environment |-> env.val,
                 tags |-> MergeTags(GetOr(template, "tags", <<>>), env.val.tags, h),
                 loot |-> IF award_loot THEN Some(loot.val) ELSE None,
                 meta |-> [template_id |-> None,
                           noncombat_id |-> Opt(template, "id"),
                           notes |-> Get(template, "notes", "")]],
                end)

\* _generate_noncombat_encounter from "loot = None" on
NoncombatLoot(L, h, level, biome, slot, enc_type, template, s, env) ==
    NoncombatResult(h, level, biome, slot, enc_type, template, env,
                    LootGenerate(L, level, Get(template, "loot_rolls", 1),
                                 RandInt(s, env.pos, 0, MaxSubSeed)))

\* _generate_noncombat_encounter from the chosen entry c = [val, pos] on
NoncombatFromTemplate(T, L, h, level, biome, slot, enc_type, s, c) ==
    NoncombatLoot(L, h, level, biome, slot, enc_type, c.val, s,
                  SelectEnvironment(T, biome,
                                    GetOr(c.val, "environment_tags", <<>>),
                                    Get(c.val, "environment_preset_id", ""),
                                    s, c.pos))

\* _generate_noncombat_encounter once the candidates are known to exist
NoncombatFromCandidates(T, L, h, level, biome, slot, enc_type, candidates, s, p) ==
    NoncombatFromTemplate(
        T, L, h, level, biome, slot, enc_type, s,
        EncWeightedChoice(
            [i \in 1..Len(candidates) |->
                <<candidates[i], EntryWeight(candidates[i])>>],
            s, p))

\* a noncombat generator that treats an empty pool as combat does
GenerateNoncombatEncounterRaising(T, L, h, level, biome, slot, enc_type, s, p) ==
    LET entries == GetOr(NoncombatTable(T, enc_type), "entries", <<>>)
        candidates == NoncombatCandidates(entries, level, biome, slot)
    IN  IF candidates = <<>> THEN Raise("ValueError", "no_entry_matches", p)
        ELSE NoncombatFromCandidates(T, L, h, level, biome, slot, enc_type,
                                     candidates, s, p)

\* _generate_noncombat_encounter
GenerateNoncombatEncounter(T, L, h, level, biome, slot, enc_type, s, p) ==
    LET entries == GetOr(NoncombatTable(T, enc_type), "entries", <<>>)
        candidates == NoncombatCandidates(entries, level, biome, slot)
    IN  IF enc_type \notin {"puzzle", "social", "exploration"}
        THEN Ok(GenerateEmptyEncounter(level, biome, slot), p)
        ELSE IF entries = <<>> THEN Ok(GenerateEmptyEncounter(level, biome, slot), p)
        ELSE IF candidates = <<>>
             THEN Ok(GenerateEmptyEncounter(level, biome, slot), p)
        ELSE NoncombatFromCandidates(T, L, h, level, biome, slot, enc_type,
                                     candidates, s, p)

\* _generate_encounter_internal
GenerateEncounterInternal(T, L, h, level, biome, slot, s, p) ==
    LET t == ChooseEncounterType(T, slot, biome, s, p)
    IN  IF t.val = "combat"
        THEN GenerateCombatEncounter(T, L, h, level, biome, slot, s, t.pos)
        ELSE IF t.val \in {"puzzle", "social", "exploration"}
             THEN GenerateNoncombatEncounter(T, L, h, level, biome, slot, t.val,
                                             s, t.pos)
             ELSE Ok(GenerateEmptyEncounter(level, biome, slot), t.pos)

\* generate_single_encounter from the return on
SingleResult(s, r) ==
    IF r.err # "" THEN r
    ELSE Ok([schema |-> "encounter.v1", seed |-> s, encounter |-> r.val], r.pos)

\* EncounterGenerator.generate_single_encounter
GenerateSingleEncounter(T, L, h, level, biome, slot, s, p) ==
    SingleResult(s, GenerateEncounterInternal(T, L, h, level, biome, slot, s, p))

-----------------------------------------------------------------------------
(* Five-room dungeon *)

\* [int(k) for k in budgets], keys being numerals of levels up to
\* DefaultMaxLevel; {} when a key is no such numeral (int(k) raises)
LevelKeys(budgets) ==
    LET keys == DOMAIN Get(budgets, "budgets", <<>>)
        ints == {n \in 0..DefaultMaxLevel : ToString(n) \in keys}
    IN  IF \A k \in keys : \E n \in 0..DefaultMaxLevel : ToString(n) = k
        THEN ints ELSE {}

\* a clamp that has no upper end
ClampLevelNoUpper(level, budgets) ==
    LET keys == LevelKeys(budgets)
        min_lvl == CHOOSE k \in keys : \A j \in keys : k <= j
    IN  IF keys = {} THEN Max(1, level)
        ELSE IF level < min_lvl THEN min_lvl
        ELSE level

\* _clamp_level(level, budgets)
ClampLevel(level, budgets) ==
    LET keys == LevelKeys(budgets)
        min_lvl == CHOOSE k \in keys : \A j \in keys : k <= j
        max_lvl == CHOOSE k \in keys : \A j \in keys : k >= j
    IN  IF keys = {} THEN Max(1, level)
        ELSE IF level < min_lvl THEN min_lvl
        ELSE IF level > max_lvl THEN max_lvl
        ELSE level

\* slot_defs.get(slot, {})
SlotDef(slot_defs, slot) ==
    IF \E i \in DOMAIN slot_defs : slot_defs[i][1] = slot
    THEN slot_defs[CHOOSE i \in DOMAIN slot_defs : slot_defs[i][1] = slot][2]
    ELSE <<>>

\* the level of the room of a slot
RoomLevel(T, base_level, slot) ==
    LET slot_defs == GetOr(T.five_room_progression, "slots", <<>>)
        delta == Get(SlotDef(slot_defs, slot), "difficulty_delta", 0)
    IN  ClampLevel(base_level + delta, T.combat_budgets)

\* the slots of a dungeon: the caller's list <<list>>, or for None the
\* default order, or the keys of the slot definitions
DungeonSlots(T, slots) ==
    LET prog == T.five_room_progression
        default_order == Get(prog, "default_order", <<>>)
        slot_defs == GetOr(prog, "slots", <<>>)
    IN  IF slots # None THEN slots[1]
        ELSE IF default_order # <<>> THEN default_order
        ELSE [i \in 1..Len(slot_defs) |-> slot_defs[i][1]]

\* a loop that gives every room a generator of its own, seeded alike
RECURSIVE RoomLoopFreshStream(_, _, _, _, _, _, _, _, _, _)
RoomsAfterFreshStream(T, L, h, base_level, biome, slots, idx, s, rooms, r) ==
    IF r.err # "" THEN r
    ELSE RoomLoopFreshStream(
             T, L, h, base_level, biome, slots, idx + 1, s, r.pos,
             Append(rooms, [slot |-> slots[idx], room_index |-> idx,
                            encounter |-> r.val]))

RoomLoopFreshStream(T, L, h, base_level, biome, slots, idx, s, p, rooms) ==
    IF idx > Len(slots) THEN Ok(rooms, p)
    ELSE RoomsAfterFreshStream(
             T, L, h, base_level, biome, slots, idx, s, rooms,
             GenerateEncounterInternal(
                 T, L, h, RoomLevel(T, base_level, slots[idx]), biome,
                 slots[idx], s, 0))

\* the loop "for idx, slot in enumerate(slots, start=1)" from room idx on; r
\* is the encounter just generated for room idx
RECURSIVE RoomLoop(_, _, _, _, _, _, _, _, _, _)
RoomsAfter(T, L, h, base_level, biome, slots, idx, s, rooms, r) ==
    IF r.err # "" THEN r
    ELSE RoomLoop(T, L, h, base_level, biome, slots, idx + 1, s, r.pos,
                  Append(rooms, [slot |-> slots[idx], room_index |-> idx,
                                 encounter |-> r.val]))

RoomLoop(T, L, h, base_level, biome, slots, idx, s, p, rooms) ==
    IF idx > Len(slots) THEN Ok(rooms, p)
    ELSE RoomsAfter(T, L, h, base_level, biome, slots, idx, s, rooms,
                    GenerateEncounterInternal(
                        T, L, h, RoomLevel(T, base_level, slots[idx]), biome,
                        slots[idx], s, p))

\* generate_five_room_dungeon from the return on
DungeonResult(base_level, biome, s, r) ==
    IF r.err # "" THEN r
    ELSE Ok([schema |-> "dungeon.5room.v1", seed |-> s, biome |-> biome,
             base_level |-> base_level, rooms |-> r.val], r.pos)

\* EncounterGenerator.generate_five_room_dungeon
GenerateFiveRoomDungeon(T, L, h, base_level, biome, slots, s, p) ==
    DungeonResult(base_level, biome, s,
                  RoomLoop(T, L, h, base_level, biome, DungeonSlots(T, slots), 1,
                           s, p, <<>>))

-----------------------------------------------------------------------------
(* Values the variables take while a scenario does not use them *)

NoRet == [op |-> "none"]
NoFrame == [active |-> FALSE]

-----------------------------------------------------------------------------
(* SpecWC: the two weighted selectors applied to candidate lists of every    *)
(* shape, at every value of the draw.                                        *)

WeightVals == {-1, 0, 1, 5}

PoolWeights == UNION {[1..n -> WeightVals] : n \in 1..MaxPool}

\* candidates named by their place in the list
EncItems(ws) == [i \in 1..Len(ws) |-> <<i, ws[i]>>]

\* a list entry of weight 1 is written without its "weight" field
LootItems(ws) ==
    [i \in 1..Len(ws) |->
        IF ws[i] = 1 THEN [id |-> i] ELSE [id |-> i, weight |-> ws[i]]]

InitWC ==
    /\ seed \in Seeds
    /\ pos = 0
    /\ ret = NoRet
    /\ hashOrder = <<>>
    /\ req = NoRet
    /\ outs = <<>>
    /\ cg = NoFrame

EncWeightedChoiceCall ==
    \E ws \in PoolWeights :
        LET items == EncItems(ws)
            r == EncWeightedChoice(items, seed, pos)
        IN  /\ ret.op = "none"
            /\ ret' = [op |-> "enc_weighted_choice", weights |-> ws,
                       raw |-> Tape(seed, pos + 1),
                       err |-> "", idx |-> r.val, draws |-> r.pos - pos]
            /\ pos' = r.pos
            /\ UNCHANGED <<seed, hashOrder, req, outs, cg>>

LootWeightedChoiceCall ==
    \E ws \in PoolWeights :
        LET items == LootItems(ws)
            r == LootWeightedChoice(items, seed, pos)
        IN  /\ ret.op = "none"
            /\ ret' = [op |-> "loot_weighted_choice", weights |-> ws,
                       raw |-> Tape(seed, pos + 1),
                       err |-> r.err,
                       idx |-> IF r.err = "" THEN r.val.id ELSE 0,
                       draws |-> r.pos - pos]
            /\ pos' = r.pos
            /\ UNCHANGED <<seed, hashOrder, req, outs, cg>>

NextWC == EncWeightedChoiceCall \/ LootWeightedChoiceCall

SpecWC == InitWC /\ [][NextWC]_vars

RECURSIVE SumSeq(_, _)
SumSeq(ws, i) == IF i > Len(ws) THEN 0 ELSE ws[i] + SumSeq(ws, i + 1)

RECURSIVE SumPos(_, _)
SumPos(ws, i) == IF i > Len(ws) THEN 0 ELSE Max(0, ws[i]) + SumPos(ws, i + 1)

IsSelection == ret.op \in {"enc_weighted_choice", "loot_weighted_choice"}

\* the total weight as the selector that ran computes it
TotalOf(r) ==
    IF r.op = "enc_weighted_choice" THEN SumPos(r.weights, 1)
    ELSE SumSeq(r.weights, 1)

NonNegative(ws) == \A i \in DOMAIN ws : ws[i] >= 0

(* C3: with non-negative weights of positive total, a selector never returns *)
(* a candidate of weight 0, whatever the draw (the draw 0 included); with    *)
(* weights [0, 5, 0] it returns the second candidate.                        *)
C3_NeverZeroWeight ==
    (IsSelection /\ NonNegative(ret.weights) /\ TotalOf(ret) > 0) =>
        /\ ret.err = ""
        /\ ret.weights[ret.idx] # 0
        /\ (ret.weights = <<0, 5, 0>> => ret.idx = 2)

(* C4: a selection over a non-empty pool of total weight <= 0 returns the    *)
(* first candidate of the pool and raises no error.                         *)
C4_FallbackFirst ==
    (IsSelection /\ TotalOf(ret) <= 0) => (ret.err = "" /\ ret.idx = 1)

(* C5 as stated: every selection over a non-empty list advances the random   *)
(* stream by exactly one draw, whatever the weights.                         *)
C5_AlwaysOneDraw == IsSelection => ret.draws = 1

(* C5 amended: a selection advances the stream by exactly one draw when the  *)
(* total weight it computes is positive, and by none when it is <= 0.        *)
C5_OneDrawIffPositiveTotal ==
    IsSelection => ret.draws = (IF TotalOf(ret) > 0 THEN 1 ELSE 0)

C5_Witness ==
    /\ ret.op = "enc_weighted_choice"
    /\ ret.weights = <<0, 0>>
    /\ ret.idx = 1
    /\ ret.draws = 0
    /\ pos = 0

-----------------------------------------------------------------------------
(* SpecCoins: the loop of _generate_coins, one iteration per step, over      *)
(* every small table of positive denomination values and every budget.      *)

CoinTables ==
    UNION {{[i \in 1..n |-> <<ToString(i), vs[i]>>] :
                vs \in [1..n -> 1..MaxDenomValue]} : n \in 1..MaxDenoms}

\* level budgets whose 20% is 0..MaxCoinBudget mgp
LevelBudgets == {5 * k : k \in 0..MaxCoinBudget}

InitCoins ==
    /\ seed \in Seeds
    /\ pos = 0
    /\ ret = NoRet
    /\ hashOrder = <<>>
    /\ req \in [coin_values : CoinTables, base_budget : LevelBudgets]
    /\ outs = <<>>
    /\ cg = NoFrame

\* _generate_parcel computes the coin budget and enters _generate_coins
CoinCall ==
    /\ ~cg.active
    /\ ret.op = "none"
    /\ cg' = CoinFrame(req.coin_values, CoinBudget(req.base_budget), pos)
    /\ UNCHANGED <<seed, pos, ret, hashOrder, req, outs>>

CoinStep ==
    /\ cg.active
    /\ ~CoinLoopDone(cg)
    /\ cg' = CoinIter(cg, seed)
    /\ pos' = cg'.pos
    /\ UNCHANGED <<seed, ret, hashOrder, req, outs>>

CoinReturn ==
    /\ cg.active
    /\ CoinLoopDone(cg)
    /\ ret' = [op |-> "generate_coins", coins |-> cg.output]
    /\ cg' = NoFrame
    /\ UNCHANGED <<seed, pos, hashOrder, req, outs>>

NextCoins == CoinCall \/ CoinStep \/ CoinReturn

SpecCoins == InitCoins /\ [][NextCoins]_vars

C6_State ==
    /\ cg.active =>
         /\ cg.remaining >= 0
         /\ 100 * CoinsValue(cg.output, req.coin_values, 1) <= 20 * req.base_budget
         /\ \A j, k \in DOMAIN cg.coins : j < k => cg.coins[j][2] >= cg.coins[k][2]
    /\ ret.op = "generate_coins" =>
         100 * CoinsValue(ret.coins, req.coin_values, 1) <= 20 * req.base_budget

C6_Step ==
    (cg.active /\ cg'.active) =>
        /\ cg'.remaining <= cg.remaining
        /\ cg'.i = cg.i + 1

-----------------------------------------------------------------------------
(* Spec: one process that is given a seed and calls one of the module-level  *)
(* entry points generate_loot, generate_single_encounter and                 *)
(* generate_five_room_dungeon, each of which builds its generator from the   *)
(* seed and runs it.                                                         *)

TagUniverse == {"ambush", "dark"}

\* the orders in which a process may iterate a set of tags
HashOrders == {h \in [1..Cardinality(TagUniverse) -> TagUniverse] :
                  \A i, j \in DOMAIN h : i # j => h[i] # h[j]}

Levels == 1..MaxLevel
RollCounts == 0..MaxRolls
Biomes == {"dungeon", "forest"}
SlotNames == {"entrance", "puzzle", "setback", "climax", "aftermath"}

\* the slots argument of generate_five_room_dungeon: None or a list
SlotLists == {None, Some(<<"climax", "entrance">>),
              Some(<<"vault", "puzzle", "setback">>), Some(<<>>)}

Init ==
    /\ seed \in Seeds
    /\ pos = 0
    /\ ret = NoRet
    /\ hashOrder \in HashOrders
    /\ req = NoRet
    /\ outs = <<>>
    /\ cg = NoFrame

\* the process keeps what an entry point returned or raised
Returns(call, r) ==
    /\ ret' = call @@ [err |-> r.err, msg |-> r.msg, val |-> r.val]
    /\ pos' = r.pos
    /\ UNCHANGED <<seed, hashOrder, req, outs, cg>>

GenerateLootCall ==
    \E level \in Levels, rolls \in RollCounts :
        /\ ret.op = "none"
        /\ Returns([op |-> "generate_loot", level |-> level, rolls |-> rolls],
                   LootGenerate(LootData, level, rolls, seed))

GenerateSingleEncounterCall ==
    \E level \in Levels, biome \in Biomes, slot \in SlotNames :
        /\ ret.op = "none"
        /\ Returns([op |-> "generate_single_encounter", level |-> level,
                    biome |-> biome, slot |-> slot],
                   GenerateSingleEncounter(Tables, LootData, hashOrder, level,
                                           biome, slot, seed, 0))

GenerateFiveRoomDungeonCall ==
    \E base_level \in Levels, biome \in Biomes, slots \in SlotLists :
        /\ ret.op = "none"
        /\ Returns([op |-> "generate_five_room_dungeon",
                    base_level |-> base_level, biome |-> biome, slots |-> slots],
                   GenerateFiveRoomDungeon(Tables, LootData, hashOrder,
                                           base_level, biome, slots, seed, 0))

Next ==
    \/ GenerateLootCall
    \/ GenerateSingleEncounterCall
    \/ GenerateFiveRoomDungeonCall

Spec == Init /\ [][Next]_vars

\* the parcels the operation returned: those of generate_loot, or those of the
\* loot of a single encounter
ParcelsReturned ==
    IF ret.op = "generate_loot" /\ ret.err = "" THEN Range(ret.val.parcels)
    ELSE IF /\ ret.op = "generate_single_encounter"
            /\ ret.err = ""
            /\ ret.val.encounter.loot # None
         THEN Range(ret.val.encounter.loot[1].parcels)
         ELSE {}

\* coins' quantities times their denominations' values plus the items' values
PlainSum(parcel) ==
    SumSeq([i \in DOMAIN parcel.coins |->
               parcel.coins[i][2]
                 * CoinValueOf(LootData.coin_values_gp, parcel.coins[i][1])], 1)
      + SumSeq([i \in DOMAIN parcel.magic_items |->
                   parcel.magic_items[i].gp_value], 1)
      + SumSeq([i \in DOMAIN parcel.mundane_items |->
                   parcel.mundane_items[i].gp_value], 1)

Distance(a, b) == IF a >= b THEN a - b ELSE b - a

\* C7 as stated: the total value of every returned parcel equals the sum of
\* its coins' quantities times their values plus the values of its magic and
\* mundane items.
C7_ValueIsPlainSum ==
    \A parcel \in ParcelsReturned : parcel.total_value_gp = PlainSum(parcel)

\* C7: the total value of every returned parcel is the sum of its coins'
\* quantities times their values plus the values of its magic and mundane
\* items, rounded to two decimals (to the nearest 10 mgp, a tie to the even
\* hundredth).
C7_ValueIsRoundedSum ==
    \A parcel \in ParcelsReturned :
        /\ parcel.total_value_gp % 10 = 0
        /\ Distance(parcel.total_value_gp, PlainSum(parcel)) <= 5
        /\ Distance(parcel.total_value_gp, PlainSum(parcel)) = 5
               => (parcel.total_value_gp \div 10) % 2 = 0

\* generate_loot returned a parcel with coins and a magic item whose plain sum
\* has a third decimal
C7_Witness ==
    /\ ret.op = "generate_loot"
    /\ \E parcel \in ParcelsReturned :
           /\ parcel.coins # <<>>
           /\ parcel.magic_items # <<>>
           /\ PlainSum(parcel) % 10 # 0

\* the encounter type _choose_encounter_type drew for a single encounter
TypeDrawn == ChooseEncounterType(Tables, ret.slot, ret.biome, seed, 0)

\* a gated entry passes the biome, slot and level tests of the request
Passes(entry, level, biome, slot) ==
    /\ \/ "biomes" \notin DOMAIN entry
       \/ entry.biomes = <<>>
       \/ \E i \in DOMAIN entry.biomes : entry.biomes[i] \in {"any", biome}
    /\ \/ "slots" \notin DOMAIN entry
       \/ entry.slots = <<>>
       \/ \E i \in DOMAIN entry.slots : entry.slots[i] \in {"any", slot}
    /\ (IF "min_level" \in DOMAIN entry THEN entry.min_level ELSE 1) <= level
    /\ level <= (IF "max_level" \in DOMAIN entry THEN entry.max_level ELSE 99)

\* a single combat encounter was asked for where no template passes
CombatPoolEmpty ==
    /\ ret.op = "generate_single_encounter"
    /\ TypeDrawn.val = "combat"
    /\ \A i \in DOMAIN EncounterTemplates.encounter_tables :
           ~Passes(EncounterTemplates.encounter_tables[i],
                   ret.level, ret.biome, ret.slot)

\* the kind of error an unknown level fails with (level 0 has no budget)
ConfigurationErrorKind == LootGenerate(LootData, 0, 1, 0).err

\* what holds of a combat encounter on an empty pool: it fails, returns no
\* record and draws nothing after the type
CombatPoolEmptyFails ==
    CombatPoolEmpty =>
        /\ ret.err # ""
        /\ ret.msg = "no_template_matches"
        /\ ret.val = <<>>
        /\ pos = TypeDrawn.pos

\* C9: a combat encounter for a level, biome and slot that no template
\* passes fails with an error of a kind other than the configuration error's,
\* returns no record, no empty encounter, and draws nothing more.
C9_FailsWithDistinctKind ==
    CombatPoolEmpty =>
        /\ ret.err \notin {"", ConfigurationErrorKind}
        /\ ret.val = <<>>
        /\ pos = TypeDrawn.pos

\* the entries of the table of the noncombat type drawn
EntriesDrawn ==
    LET table == IF TypeDrawn.val = "puzzle" THEN PuzzleTables
                 ELSE IF TypeDrawn.val = "social" THEN SocialTables
                 ELSE ExplorationTables
    IN  IF "entries" \in DOMAIN table THEN table.entries ELSE <<>>

\* a single noncombat encounter was asked for whose table is absent, has no
\* entries, or has none that passes
NoncombatPoolEmpty ==
    /\ ret.op = "generate_single_encounter"
    /\ TypeDrawn.val \in {"puzzle", "social", "exploration"}
    /\ \A i \in DOMAIN EntriesDrawn :
           ~Passes(EntriesDrawn[i], ret.level, ret.biome, ret.slot)

\* C10: when the type drawn is puzzle, social or exploration and its table is
\* absent, has no entries or none that passes the filter, generation returns
\* without error and without a further draw the empty encounter: type
\* "empty", no enemies, the neutral environment, no tags, null loot, and the
\* requested difficulty, slot and biome.
C10_EmptyFallback ==
    NoncombatPoolEmpty =>
        /\ ret.err = ""
        /\ pos = TypeDrawn.pos
        /\ ret.val.encounter.type = "empty"
        /\ ret.val.encounter.enemies = <<>>
        /\ ret.val.encounter.environment =
               [preset_id |-> None, description |-> "", tags |-> <<>>,
                mechanical_effects |-> <<>>]
        /\ ret.val.encounter.tags = <<>>
        /\ ret.val.encounter.loot = None
        /\ ret.val.encounter.difficulty = ret.level
        /\ ret.val.encounter.slot = ret.slot
        /\ ret.val.encounter.biome = ret.biome

\* a social encounter was drawn where the table has entries and none passes
C10_Witness ==
    /\ NoncombatPoolEmpty
    /\ TypeDrawn.val = "social"
    /\ EntriesDrawn # <<>>
    /\ ret.err = ""
    /\ ret.val.encounter.type = "empty"

\* the encounters the operation returned: that of a single encounter, or
\* those of the rooms of a dungeon
EncountersReturned ==
    IF ret.op = "generate_single_encounter" /\ ret.err = ""
    THEN {ret.val.encounter}
    ELSE IF ret.op = "generate_five_room_dungeon" /\ ret.err = ""
         THEN {ret.val.rooms[i].encounter : i \in DOMAIN ret.val.rooms}
         ELSE {}

\* C19: every encounter returned with type "combat" has at least one enemy
\* entry, each with count >= 1, and every encounter of another type has no
\* enemies.
C19_CombatHasEnemies ==
    \A enc \in EncountersReturned :
        IF enc.type = "combat"
        THEN /\ enc.enemies # <<>>
             /\ \A i \in DOMAIN enc.enemies : enc.enemies[i].count >= 1
        ELSE enc.enemies = <<>>

\* what holds of the enemies: those listed have count >= 1, and only a combat
\* encounter lists any
EnemiesOnlyInCombat ==
    \A enc \in EncountersReturned :
        /\ \A i \in DOMAIN enc.enemies : enc.enemies[i].count >= 1
        /\ enc.type # "combat" => enc.enemies = <<>>

-----------------------------------------------------------------------------
(* SpecFilter: the three level gates, each applied to a pool of one entry    *)
(* whose min_level and max_level are present or absent.                      *)

GateMins == {None, Some(1), Some(5)}
GateMaxs == {None, Some(10), Some(20)}
ProbeLevels == {0, 1, 4, 5, 7, 10, 11, 20, 21, 50, 99, 100}

\* the entry with the given optional bounds
GatedEntry(mn, mx) ==
    IF mn = None /\ mx = None THEN [id |-> "probe", name |-> "Probe"]
    ELSE IF mx = None
         THEN [id |-> "probe", name |-> "Probe", min_level |-> mn[1]]
    ELSE IF mn = None
         THEN [id |-> "probe", name |-> "Probe", max_level |-> mx[1]]
    ELSE [id |-> "probe", name |-> "Probe", min_level |-> mn[1],
          max_level |-> mx[1]]

InitFilter ==
    /\ req \in {[entry |-> GatedEntry(mn, mx)] : mn \in GateMins, mx \in GateMaxs}
    /\ seed = 0
    /\ pos = 0
    /\ ret = NoRet
    /\ hashOrder = <<>>
    /\ outs = <<>>
    /\ cg = NoFrame

\* the process keeps whether the gate kept the entry
Gated(pool, level, kept) ==
    /\ ret' = [op |-> "gate", pool |-> pool, level |-> level, kept |-> kept # <<>>]
    /\ UNCHANGED <<seed, pos, hashOrder, req, outs, cg>>

FilterMagicCall ==
    \E level \in ProbeLevels :
        /\ ret.op = "none"
        /\ Gated("magic_items", level, FilterMagicByLevel(<<req.entry>>, level))

CombatCandidatesCall ==
    \E level \in ProbeLevels, biome \in Biomes, slot \in SlotNames :
        /\ ret.op = "none"
        /\ Gated("combat_templates", level,
                 CombatCandidates(<<req.entry>>, level, biome, slot))

NoncombatCandidatesCall ==
    \E level \in ProbeLevels, biome \in Biomes, slot \in SlotNames :
        /\ ret.op = "none"
        /\ Gated("noncombat_entries", level,
                 NoncombatCandidates(<<req.entry>>, level, biome, slot))

NextFilter ==
    \/ FilterMagicCall
    \/ CombatCandidatesCall
    \/ NoncombatCandidatesCall

SpecFilter == InitFilter /\ [][NextFilter]_vars

\* min_level <= level <= max_level, absent bounds counting as 1 and 99
InGate(entry, level) ==
    /\ (IF "min_level" \in DOMAIN entry THEN entry.min_level ELSE 1) <= level
    /\ level <= (IF "max_level" \in DOMAIN entry THEN entry.max_level ELSE 99)

\* C8: in every level-gated pool (magic items, combat templates, noncombat
\* entries) an entry is a candidate at level L exactly when
\* min_level <= L <= max_level, an absent min_level counting as 1 and an
\* absent max_level as 99.
C8_LevelGate ==
    ret.op = "gate" => (ret.kept <=> InGate(req.entry, ret.level))

\* what holds of the pools of encountergen: they gate with 1 and 99
EncounterPoolsGate ==
    ret.op = "gate" /\ ret.pool # "magic_items"
        => (ret.kept <=> InGate(req.entry, ret.level))

-----------------------------------------------------------------------------
(* SpecRuns: the same request with the same seed is run twice, by two        *)
(* processes.  Each process iterates a set of strings in an order of its     *)
(* own (str hashes are salted per process), so each run draws its hashOrder. *)

RunRequests ==
    {[op |-> "generate_loot", level |-> l, rolls |-> n] :
         l \in Levels, n \in RollCounts}
      \cup {[op |-> "generate_single_encounter", level |-> l, biome |-> b,
             slot |-> sl] : l \in Levels, b \in Biomes, sl \in SlotNames}
      \cup {[op |-> "generate_five_room_dungeon", base_level |-> l, biome |-> b,
             slots |-> None] : l \in Levels, b \in Biomes}

InitRuns ==
    /\ seed \in Seeds
    /\ req \in RunRequests
    /\ pos = 0
    /\ ret = NoRet
    /\ hashOrder = <<>>
    /\ outs = <<>>
    /\ cg = NoFrame

\* a process with iteration order h has run the request and printed r
RunDone(h, r) ==
    /\ hashOrder' = h
    /\ outs' = Append(outs, [err |-> r.err, msg |-> r.msg, val |-> r.val])
    /\ pos' = r.pos
    /\ UNCHANGED <<seed, ret, req, cg>>

RunGenerateLoot ==
    \E h \in HashOrders :
        /\ Len(outs) < 2
        /\ req.op = "generate_loot"
        /\ RunDone(h, LootGenerate(LootData, req.level, req.rolls, seed))

RunSingleEncounter ==
    \E h \in HashOrders :
        /\ Len(outs) < 2
        /\ req.op = "generate_single_encounter"
        /\ RunDone(h, GenerateSingleEncounter(Tables, LootData, h, req.level,
                                              req.biome, req.slot, seed, 0))

RunFiveRoomDungeon ==
    \E h \in HashOrders :
        /\ Len(outs) < 2
        /\ req.op = "generate_five_room_dungeon"
        /\ RunDone(h, GenerateFiveRoomDungeon(Tables, LootData, h, req.base_level,
                                              req.biome, req.slots, seed, 0))

NextRuns ==
    \/ RunGenerateLoot
    \/ RunSingleEncounter
    \/ RunFiveRoomDungeon

SpecRuns == InitRuns /\ [][NextRuns]_vars

\* C1: for fixed tables, seed and inputs, two independent runs of
\* generate_loot, generate_single_encounter and generate_five_room_dungeon
\* return identical records, field for field and element order for element
\* order, the order of the merged tags included.
C1_Deterministic == Len(outs) = 2 => outs[1] = outs[2]

\* what holds of two runs: they differ at most in the order of tag lists
\* (generate_loot merges no tags)
LootRunsAgree ==
    Len(outs) = 2 /\ req.op = "generate_loot" => outs[1] = outs[2]

-----------------------------------------------------------------------------
(* SpecOrder: in one process, one generator runs generate_five_room_dungeon  *)
(* and another generator of the same seed runs generate_single_encounter     *)
(* once per slot, with the room's level, one call after the other.  ret is   *)
(* the dungeon's result, outs the single results so far and pos the position *)
(* of the second generator's stream.                                         *)

OrderSlotLists == {None, Some(<<"climax", "entrance", "vault">>),
                   Some(<<"puzzle">>)}

InitOrder ==
    /\ seed \in Seeds
    /\ hashOrder \in HashOrders
    /\ req \in [base_level : Levels, biome : Biomes, slots : OrderSlotLists]
    /\ pos = 0
    /\ ret = NoRet
    /\ outs = <<>>
    /\ cg = NoFrame

\* the first generator has returned (or raised) r
DungeonDone(r) ==
    /\ ret' = [op |-> "generate_five_room_dungeon", err |-> r.err,
               msg |-> r.msg, val |-> r.val, pos |-> r.pos]
    /\ UNCHANGED <<seed, pos, hashOrder, req, outs, cg>>

DungeonRun ==
    /\ ret.op = "none"
    /\ DungeonDone(GenerateFiveRoomDungeon(Tables, LootData, hashOrder,
                                           req.base_level, req.biome, req.slots,
                                           seed, 0))

\* the second generator has returned (or raised) r
SingleDone(r) ==
    /\ outs' = Append(outs, [err |-> r.err, msg |-> r.msg, val |-> r.val])
    /\ pos' = r.pos
    /\ UNCHANGED <<seed, ret, hashOrder, req, cg>>

\* the next single encounter, for slot number i of the slot list
SingleOf(slots, i) ==
    /\ i <= Len(slots)
    /\ SingleDone(GenerateSingleEncounter(
                      Tables, LootData, hashOrder,
                      RoomLevel(Tables, req.base_level, slots[i]), req.biome,
                      slots[i], seed, pos))

SingleRun ==
    /\ \A i \in DOMAIN outs : outs[i].err = ""
    /\ SingleOf(DungeonSlots(Tables, req.slots), Len(outs) + 1)

NextOrder ==
    \/ DungeonRun
    \/ SingleRun

SpecOrder == InitOrder /\ [][NextOrder]_vars

\* the slot list s_1..s_n: the caller's, else the configured default order
SlotsAsked ==
    IF req.slots = None THEN FiveRoomProgression.default_order ELSE req.slots[1]

\* C2: the dungeon has exactly n rooms, room i with room_index i and slot
\* s_i, and room i's encounter is the i-th result of the sequential single
\* generations on a generator of the same seed; the two streams end at the
\* same position, and the dungeon fails exactly where the sequence fails.
C2_FiveRoomOrdering ==
    ret.op = "generate_five_room_dungeon" =>
        /\ ret.err = "" =>
               /\ Len(ret.val.rooms) = Len(SlotsAsked)
               /\ \A i \in DOMAIN ret.val.rooms :
                      /\ ret.val.rooms[i].room_index = i
                      /\ ret.val.rooms[i].slot = SlotsAsked[i]
                      /\ i <= Len(outs) =>
                             /\ outs[i].err = ""
                             /\ ret.val.rooms[i].encounter = outs[i].val.encounter
               /\ Len(outs) = Len(SlotsAsked) => pos = ret.pos
        /\ ret.err # "" =>
               /\ Len(outs) < Len(SlotsAsked) \/ outs[Len(outs)].err # ""
               /\ \A i \in DOMAIN outs :
                      outs[i].err # "" =>
                          outs[i].err = ret.err /\ outs[i].msg = ret.msg

\* both generators went through the five default slots, and a combat room
\* follows another room
C2_Witness ==
    /\ ret.op = "generate_five_room_dungeon"
    /\ ret.err = ""
    /\ req.slots = None
    /\ Len(outs) = 5
    /\ \E i \in 2..5 : ret.val.rooms[i].encounter.type = "combat"

-----------------------------------------------------------------------------
(* Claims about generate_loot, checked under Spec *)

\* the level asked of generate_loot has an entry in level_budgets_gp
HasBudget == ToString(ret.level) \in DOMAIN LootData.level_budgets_gp

\* C11: generate fails with the error of an unknown level exactly when the
\* level has no entry in the budget mapping, a level between two configured
\* levels included; the failure returns no parcel and consumes no draw.
C11_UnknownLevel ==
    ret.op = "generate_loot" =>
        /\ ~HasBudget =>
               /\ ret.err = ConfigurationErrorKind
               /\ ret.msg = "level_not_found"
               /\ ret.val = <<>>
               /\ pos = 0
        /\ HasBudget => ret.msg # "level_not_found"

\* generate_loot failed for a level that lies between two configured levels
C11_Witness ==
    /\ ret.op = "generate_loot"
    /\ ~HasBudget
    /\ \E lo, hi \in Levels :
           /\ lo < ret.level /\ ret.level < hi
           /\ ToString(lo) \in DOMAIN LootData.level_budgets_gp
           /\ ToString(hi) \in DOMAIN LootData.level_budgets_gp
    /\ ret.err = "ValueError"
    /\ pos = 0


\* the magic items of loot_data that the level lets pass
MagicPoolAt(level) ==
    {i \in DOMAIN LootData.magic_items : InGate(LootData.magic_items[i], level)}

\* the number of parcels asked for: rolls coerced to at least 1
RollsMade == IF ret.rolls >= 1 THEN ret.rolls ELSE 1

\* C12: for a level with a budget generate returns exactly max(1, rolls)
\* parcels and reports that number in "rolls"; every parcel holds exactly one
\* item, magic or mundane, and a magic item is an item of the level-filtered
\* magic pool (which is then non-empty).
C12_ParcelShape ==
    ret.op = "generate_loot" /\ HasBudget =>
        /\ ret.err = ""
        /\ Len(ret.val.parcels) = RollsMade
        /\ ret.val.rolls = RollsMade
        /\ \A k \in DOMAIN ret.val.parcels :
               LET parcel == ret.val.parcels[k]
               IN  /\ Len(parcel.magic_items) + Len(parcel.mundane_items) = 1
                   /\ \A j \in DOMAIN parcel.magic_items :
                          \E i \in MagicPoolAt(ret.level) :
                              /\ LootData.magic_items[i].id = parcel.magic_items[j].id
                              /\ LootData.magic_items[i].name
                                     = parcel.magic_items[j].name
                              /\ LootData.magic_items[i].gp_value
                                     = parcel.magic_items[j].gp_value
                   /\ \A j \in DOMAIN parcel.mundane_items :
                          \E i \in DOMAIN LootData.mundane_goods :
                              LootData.mundane_goods[i].id
                                  = parcel.mundane_items[j].id

\* generate_loot was asked for 0 rolls and returned one parcel, with a magic
\* item
C12_Witness ==
    /\ ret.op = "generate_loot"
    /\ ret.rolls = 0
    /\ ret.err = ""
    /\ Len(ret.val.parcels) = 1
    /\ ret.val.parcels[1].magic_items # <<>>
    /\ ret.val.parcels[1].mundane_items = <<>>

-----------------------------------------------------------------------------
(* SpecEnv: _select_environment called on its own, for a biome, a list of    *)
(* requested tags and an optional specific preset id.                        *)

EnvBiomes == {"dungeon", "forest", "swamp"}
EnvTagLists == {<<>>, <<"dark">>, <<"ambush">>, <<"fire">>, <<"fire", "dark">>}
EnvSpecificIds == {"", "crypt", "cave"}

InitEnv ==
    /\ seed \in Seeds
    /\ req \in [biome : EnvBiomes, tags : EnvTagLists, specific_id : EnvSpecificIds]
    /\ pos = 0
    /\ ret = NoRet
    /\ hashOrder = <<>>
    /\ outs = <<>>
    /\ cg = NoFrame

\* the generator keeps the environment r.val that _select_environment returned
EnvironmentSelected(r) ==
    /\ ret' = [op |-> "select_environment", val |-> r.val]
    /\ pos' = r.pos
    /\ UNCHANGED <<seed, hashOrder, req, outs, cg>>

SelectEnvironmentCall ==
    /\ ret.op = "none"
    /\ EnvironmentSelected(SelectEnvironment(Tables, req.biome, req.tags,
                                             req.specific_id, seed, 0))

NextEnv == SelectEnvironmentCall

SpecEnv == InitEnv /\ [][NextEnv]_vars

\* the ids of the presets that match the biome
BiomePresets(biome) ==
    {EnvironmentPresets.presets[i].id : i \in
        {j \in DOMAIN EnvironmentPresets.presets :
            \E k \in DOMAIN EnvironmentPresets.presets[j].biomes :
                EnvironmentPresets.presets[j].biomes[k] \in {"any", biome}}}

\* the ids of the presets that share a tag with the request
TagPresets(tags) ==
    {EnvironmentPresets.presets[i].id : i \in
        {j \in DOMAIN EnvironmentPresets.presets :
            \E k \in DOMAIN EnvironmentPresets.presets[j].tags, t \in DOMAIN tags :
                EnvironmentPresets.presets[j].tags[k] = tags[t]}}

AllPresets == {EnvironmentPresets.presets[i].id : i \in DOMAIN EnvironmentPresets.presets}

\* the pool the chain of the specification draws from
ChainPool(biome, tags) ==
    LET both == IF tags = <<>> THEN BiomePresets(biome)
                ELSE BiomePresets(biome) \cap TagPresets(tags)
    IN  IF both # {} THEN both
        ELSE IF BiomePresets(biome) # {} THEN BiomePresets(biome)
        ELSE AllPresets

\* C13: when no specific preset id resolves, the environment is drawn from
\* the presets matching biome and a tag, else from those matching the biome
\* alone, else from all presets; so the preset matches the biome whenever
\* some preset does.
C13_FallbackChain ==
    ret.op = "select_environment" /\ req.specific_id \notin AllPresets =>
        /\ ret.val.preset_id # None
        /\ ret.val.preset_id[1] \in ChainPool(req.biome, req.tags)

\* what holds of the selection: a preset matching biome and tag when there is
\* one, else any preset
TwoStagePool ==
    ret.op = "select_environment" /\ req.specific_id \notin AllPresets =>
        LET both == IF req.tags = <<>> THEN BiomePresets(req.biome)
                    ELSE BiomePresets(req.biome) \cap TagPresets(req.tags)
        IN  ret.val.preset_id[1] \in (IF both # {} THEN both ELSE AllPresets)

-----------------------------------------------------------------------------
(* SpecClamp: generate_five_room_dungeon with the combat budgets table that  *)
(* Tables.load found: the file with level keys, no file (the empty dict), or *)
(* a file one of whose keys is no number.                                    *)

BudgetTables ==
    << CombatBudgets, <<>>, [budgets |-> ("2" :> 100) @@ ("boss" :> 900)] >>

ClampSlotLists == {None, Some(<<"climax", "vault", "aftermath">>)}

InitClamp ==
    /\ seed \in Seeds
    /\ req \in [base_level : Levels, biome : Biomes, slots : ClampSlotLists,
                budgets : DOMAIN BudgetTables]
    /\ hashOrder = <<"ambush", "dark">>
    /\ pos = 0
    /\ ret = NoRet
    /\ outs = <<>>
    /\ cg = NoFrame

\* the generator has returned (or raised) r
ClampDungeonDone(r) ==
    /\ ret' = [op |-> "generate_five_room_dungeon", err |-> r.err,
               msg |-> r.msg, val |-> r.val]
    /\ pos' = r.pos
    /\ UNCHANGED <<seed, hashOrder, req, outs, cg>>

ClampDungeonRun ==
    /\ ret.op = "none"
    /\ ClampDungeonDone(GenerateFiveRoomDungeon(
           [Tables EXCEPT !.combat_budgets = BudgetTables[req.budgets]],
           LootData, hashOrder, req.base_level, req.biome, req.slots, seed, 0))

NextClamp == ClampDungeonRun

SpecClamp == InitClamp /\ [][NextClamp]_vars

\* the difficulty delta configured for a slot, 0 when it has none
DeltaOf(slot) ==
    LET with == {i \in DOMAIN FiveRoomProgression.slots :
                    /\ FiveRoomProgression.slots[i][1] = slot
                    /\ "difficulty_delta" \in DOMAIN FiveRoomProgression.slots[i][2]}
    IN  IF with = {} THEN 0
        ELSE FiveRoomProgression.slots[CHOOSE i \in with : TRUE][2].difficulty_delta

\* x clamped to [least, greatest] of a non-empty set of levels
ClampTo(x, keys) ==
    LET lo == CHOOSE k \in keys : \A j \in keys : k <= j
        hi == CHOOSE k \in keys : \A j \in keys : k >= j
    IN  IF x < lo THEN lo ELSE IF x > hi THEN hi ELSE x

\* the level keys of loot_data's level_budgets_gp
LootLevelKeys == {n \in 0..99 : ToString(n) \in DOMAIN LootData.level_budgets_gp}

\* the level keys of the combat budgets table in use; none when the table is
\* absent or one of its keys is no number
CombatLevelKeys ==
    LET b == BudgetTables[req.budgets]
        keys == IF "budgets" \in DOMAIN b THEN DOMAIN b.budgets ELSE {}
        nums == {n \in 0..99 : ToString(n) \in keys}
    IN  IF \A k \in keys : \E n \in nums : ToString(n) = k THEN nums ELSE {}

\* every room's encounter, and its loot when it has one, is of level lvl(slot)
RoomsAtLevel(lvl(_)) ==
    \A i \in DOMAIN ret.val.rooms :
        LET room == ret.val.rooms[i]
        IN  /\ room.encounter.difficulty = lvl(room.slot)
            /\ room.encounter.loot # None =>
                   room.encounter.loot[1].encounter_level = lvl(room.slot)

\* C14 as stated: every room is generated at base_level plus the slot's delta
\* clamped to the least and greatest level key of the level GP-budget table.
C14_ClampToLootBudgets ==
    ret.op = "generate_five_room_dungeon" /\ ret.err = "" =>
        LET lvl(slot) == ClampTo(req.base_level + DeltaOf(slot), LootLevelKeys)
        IN  RoomsAtLevel(lvl)

\* C14: every room is generated at base_level plus the slot's delta (0 when
\* it has none) clamped to the least and greatest level key of the combat
\* budgets table, and just raised to at least 1 when that table has no level
\* keys (absent, or a key that is no number).
C14_ClampToCombatBudgets ==
    ret.op = "generate_five_room_dungeon" /\ ret.err = "" =>
        LET lvl(slot) ==
                IF CombatLevelKeys = {}
                THEN (IF req.base_level + DeltaOf(slot) >= 1
                      THEN req.base_level + DeltaOf(slot) ELSE 1)
                ELSE ClampTo(req.base_level + DeltaOf(slot), CombatLevelKeys)
        IN  RoomsAtLevel(lvl)

\* a dungeon of the five default slots with a room whose level was lowered
\* to the greatest key and whose encounter carries loot
C14_Witness ==
    /\ ret.op = "generate_five_room_dungeon"
    /\ ret.err = ""
    /\ req.budgets = 1
    /\ Len(ret.val.rooms) = 5
    /\ \E i \in DOMAIN ret.val.rooms :
           /\ ret.val.rooms[i].encounter.difficulty
                  < req.base_level + DeltaOf(ret.val.rooms[i].slot)
           /\ ret.val.rooms[i].encounter.loot # None

-----------------------------------------------------------------------------
(* SpecType: _choose_encounter_type called on its own, with the type tables  *)
(* of encounter_types.json or with a file that lists no table.               *)

TypeTables == << EncounterTypes, [tables |-> <<>>] >>

InitType ==
    /\ seed \in Seeds
    /\ req \in [slot : SlotNames, biome : Biomes, types : DOMAIN TypeTables]
    /\ pos = 0
    /\ ret = NoRet
    /\ hashOrder = <<>>
    /\ outs = <<>>
    /\ cg = NoFrame

\* the generator keeps the type r.val that _choose_encounter_type returned
TypeChosen(r) ==
    /\ ret' = [op |-> "choose_encounter_type", val |-> r.val]
    /\ pos' = r.pos
    /\ UNCHANGED <<seed, hashOrder, req, outs, cg>>

ChooseEncounterTypeCall ==
    /\ ret.op = "none"
    /\ TypeChosen(ChooseEncounterType(
           [Tables EXCEPT !.encounter_types = TypeTables[req.types]],
           req.slot, req.biome, seed, 0))

NextType == ChooseEncounterTypeCall

SpecType == InitType /\ [][NextType]_vars

\* the type tables in use
TypeTablesUsed == TypeTables[req.types].tables

\* a list names x or "any"; an absent or empty list names everything
Names(rec, field, x) ==
    \/ field \notin DOMAIN rec
    \/ rec[field] = <<>>
    \/ \E i \in DOMAIN rec[field] : rec[field][i] \in {"any", x}

\* the indices of the tables the draw is over: those whose biome and slot
\* lists match the request, or all of them when none does
TypeCandidates ==
    LET fit == {i \in DOMAIN TypeTablesUsed :
                   /\ Names(TypeTablesUsed[i], "biomes", req.biome)
                   /\ Names(TypeTablesUsed[i], "slots", req.slot)}
    IN  IF fit = {} THEN DOMAIN TypeTablesUsed ELSE fit

\* the k-th smallest element of a set of numbers
Kth(set, k) == CHOOSE x \in set : Cardinality({y \in set : y <= x}) = k

\* a raw draw scaled onto 1..n
Scaled(raw, n) == 1 + (raw * (n - 1)) \div (RawRange - 1)

\* the table that the first draw of the stream picks
TableDrawn ==
    TypeTablesUsed[Kth(TypeCandidates,
                       Scaled(Tape(seed, 1), Cardinality(TypeCandidates)))]

\* the roll that the second draw of the stream makes on that table's die
RollDrawn ==
    LET die == IF "die" \in DOMAIN TableDrawn THEN TableDrawn.die ELSE 20
    IN  Scaled(Tape(seed, 2), IF die >= 1 THEN die ELSE 1)

\* row i of the table drawn holds the roll
RowHolds(i) ==
    LET row == TableDrawn.rows[i]
        lo == IF "min" \in DOMAIN row THEN row.min
              ELSE IF "max" \in DOMAIN row THEN row.max ELSE 1
        hi == IF "max" \in DOMAIN row THEN row.max ELSE lo
    IN  lo <= RollDrawn /\ RollDrawn <= hi

\* the type of the first row that holds the roll, "combat" when no row does
\* or the row names no type
TypeOfRoll ==
    LET holding == {i \in DOMAIN TableDrawn.rows : RowHolds(i)}
        first == Kth(holding, 1)
    IN  IF holding = {} THEN "combat"
        ELSE IF "type" \in DOMAIN TableDrawn.rows[first]
             THEN TableDrawn.rows[first].type ELSE "combat"

\* C15 as stated: every call makes exactly two draws, the table first and the
\* die roll second, and returns the type of the first row holding the roll.
C15_AlwaysTwoDraws ==
    ret.op = "choose_encounter_type" => pos = 2

\* C15: when there is a type table, a call makes exactly two draws, the
\* first for the table among the matching ones (all when none matches), the
\* second for the roll in 1..die (die 20 by default), and returns the type of
\* the first row whose range holds the roll, "combat" when none does; when
\* there is no type table it returns "combat" without a draw.
C15_TwoStageDraw ==
    ret.op = "choose_encounter_type" =>
        IF TypeTablesUsed = <<>>
        THEN ret.val = "combat" /\ pos = 0
        ELSE ret.val = TypeOfRoll /\ pos = 2

\* no table matched, the draw went over all tables and the row found by the
\* roll was not the first row
C15_Witness ==
    /\ ret.op = "choose_encounter_type"
    /\ TypeTablesUsed # <<>>
    /\ \A i \in DOMAIN TypeTablesUsed :
           ~(/\ Names(TypeTablesUsed[i], "biomes", req.biome)
             /\ Names(TypeTablesUsed[i], "slots", req.slot))
    /\ TableDrawn.id = "t_late"
    /\ ret.val = "social"
    /\ pos = 2

-----------------------------------------------------------------------------
(* SpecWeight: the weights handed to the selector, for a combat template or  *)
(* a noncombat entry, with the faction table present or absent.              *)

\* the templates of the tables and two more, of negative base weight
WeightTemplates ==
    EncounterTemplates.encounter_tables
      \o << [id |-> "cursed", weight |-> -2, factions |-> <<"goblin_tribe">>],
            [id |-> "void", weight |-> -1] >>

WeightEntries ==
    SocialTables.entries \o << [id |-> "mirage", weight |-> -1] >>

FactionTables == << Factions, <<>> >>

InitWeight ==
    /\ req \in [kind : {"combat"}, tpl : DOMAIN WeightTemplates, slot : SlotNames,
                biome : Biomes, factions : DOMAIN FactionTables]
          \cup [kind : {"noncombat"}, tpl : DOMAIN WeightEntries, slot : SlotNames,
                biome : Biomes, factions : DOMAIN FactionTables]
    /\ seed = 0
    /\ pos = 0
    /\ ret = NoRet
    /\ hashOrder = <<>>
    /\ outs = <<>>
    /\ cg = NoFrame

\* the weight w is appended to the weighted list
Weighted(kind, w) ==
    /\ ret' = [op |-> kind, val |-> w]
    /\ UNCHANGED <<seed, pos, hashOrder, req, outs, cg>>

TemplateWeightCall ==
    /\ ret.op = "none"
    /\ req.kind = "combat"
    /\ Weighted("template_weight",
                TemplateWeight([Tables EXCEPT !.factions = FactionTables[req.factions]],
                               WeightTemplates[req.tpl], req.slot, req.biome))

EntryWeightCall ==
    /\ ret.op = "none"
    /\ req.kind = "noncombat"
    /\ Weighted("entry_weight", EntryWeight(WeightEntries[req.tpl]))

NextWeight ==
    \/ TemplateWeightCall
    \/ EntryWeightCall

SpecWeight == InitWeight /\ [][NextWeight]_vars

\* the base weight of a template or entry, 1 when it has none
BaseWeight(tpl) == IF "weight" \in DOMAIN tpl THEN tpl.weight ELSE 1

\* the factions of the faction table in use
KnownFactions ==
    IF "factions" \in DOMAIN FactionTables[req.factions]
    THEN FactionTables[req.factions].factions ELSE <<>>

\* the biome modifier times the slot modifier of the faction named fid: 1
\* for a modifier it does not have, 1 when no faction has that name
FactionModifier(fid) ==
    LET named == {i \in DOMAIN KnownFactions : KnownFactions[i].id = fid}
        mods == KnownFactions[CHOOSE i \in named : TRUE].weight_modifiers
        bm == IF "biomes" \in DOMAIN mods /\ req.biome \in DOMAIN mods.biomes
              THEN mods.biomes[req.biome] ELSE 1
        sm == IF "slots" \in DOMAIN mods /\ req.slot \in DOMAIN mods.slots
              THEN mods.slots[req.slot] ELSE 1
    IN  IF named = {} THEN 1 ELSE bm * sm

\* the product of the modifiers of the factions fids[i..]
RECURSIVE ModifierProduct(_, _)
ModifierProduct(fids, i) ==
    IF i > Len(fids) THEN 1
    ELSE FactionModifier(fids[i]) * ModifierProduct(fids, i + 1)

\* the product of the modifiers of the template's factions
TemplateProduct ==
    IF "factions" \in DOMAIN WeightTemplates[req.tpl]
    THEN ModifierProduct(WeightTemplates[req.tpl].factions, 1) ELSE 1

\* C16: a combat template's weight is its base weight times the faction
\* modifier, the product of the biome and slot modifiers of its known
\* factions, replaced by 1 when it is <= 0; a weight that is <= 0 is passed as
\* 0, so none is negative.  A noncombat entry's weight is its base weight.
C16_Weights ==
    /\ ret.op = "template_weight" =>
           LET modifier == IF TemplateProduct > 0 THEN TemplateProduct ELSE 1
               weight == BaseWeight(WeightTemplates[req.tpl]) * modifier
           IN  /\ ret.val = (IF weight > 0 THEN weight ELSE 0)
               /\ ret.val >= 0
    /\ ret.op = "entry_weight" => ret.val = BaseWeight(WeightEntries[req.tpl])

\* a template whose factions' modifiers multiply to a negative number and
\* which is weighted by its base weight
C16_Witness ==
    /\ ret.op = "template_weight"
    /\ TemplateProduct < 0
    /\ ret.val = BaseWeight(WeightTemplates[req.tpl])
    /\ ret.val > 0

-----------------------------------------------------------------------------
(* SpecEnemies: _instantiate_enemy_group called on its own, for the group id *)
(* of a template: a group of the table, an id of no group, or none ("").     *)

GroupIds == {"goblin_pack", "rat_swarm", "wolf_pack", "boss_group", "patrol", ""}

InitEnemies ==
    /\ seed \in Seeds
    /\ req \in [group_id : GroupIds]
    /\ pos = 0
    /\ ret = NoRet
    /\ hashOrder = <<>>
    /\ outs = <<>>
    /\ cg = NoFrame

\* the generator keeps what _instantiate_enemy_group returned or raised
Instantiated(r) ==
    /\ ret' = [op |-> "instantiate_enemy_group", err |-> r.err, msg |-> r.msg,
               val |-> r.val]
    /\ pos' = r.pos
    /\ UNCHANGED <<seed, hashOrder, req, outs, cg>>

InstantiateEnemyGroupCall ==
    /\ ret.op = "none"
    /\ Instantiated(InstantiateEnemyGroup(Tables, req.group_id, seed, 0))

NextEnemies == InstantiateEnemyGroupCall

SpecEnemies == InitEnemies /\ [][NextEnemies]_vars

\* the indices of the groups of the table that have the id asked for
GroupsNamed == {i \in DOMAIN EnemyGroups.groups : EnemyGroups.groups[i].id = req.group_id}

\* the entries of the group asked for
GroupEntries == EnemyGroups.groups[CHOOSE i \in GroupsNamed : TRUE].enemies

\* the least count of entry i, and the greatest, raised to the least
CountMin(i) ==
    IF "count" \in DOMAIN GroupEntries[i] /\ "min" \in DOMAIN GroupEntries[i].count
    THEN GroupEntries[i].count.min ELSE 1

CountMax(i) ==
    LET given == IF "count" \in DOMAIN GroupEntries[i]
                      /\ "max" \in DOMAIN GroupEntries[i].count
                 THEN GroupEntries[i].count.max ELSE CountMin(i)
    IN  IF given < CountMin(i) THEN CountMin(i) ELSE given

\* the count that draw number i of the stream gives entry i
CountDrawn(i) ==
    CountMin(i) + (Tape(seed, i) * (CountMax(i) - CountMin(i))) \div (RawRange - 1)

\* the entries that are kept, in entry order
KeptEntries == {i \in DOMAIN GroupEntries : CountDrawn(i) >= 1}

\* C17: for a group that exists, one count is drawn per entry in entry order
\* (also for an entry that is then left out), each within [min, max(min,
\* max)]; the enemies returned are the entries whose count is not 0, in entry
\* order, each with its count >= 1.  Without a group id, or with the id of no
\* group, generation fails and returns nothing.
C17_EnemyGroup ==
    ret.op = "instantiate_enemy_group" =>
        IF GroupsNamed = {}
        THEN ret.err # "" /\ ret.val = <<>>
        ELSE /\ ret.err = ""
             /\ pos = Len(GroupEntries)
             /\ \A i \in DOMAIN GroupEntries :
                    CountMin(i) <= CountDrawn(i) /\ CountDrawn(i) <= CountMax(i)
             /\ Len(ret.val) = Cardinality(KeptEntries)
             /\ \A k \in DOMAIN ret.val :
                    /\ ret.val[k].monster_id
                           = GroupEntries[Kth(KeptEntries, k)].monster_id
                    /\ ret.val[k].count = CountDrawn(Kth(KeptEntries, k))
                    /\ ret.val[k].count >= 1

\* the first entry of a group of two was kept and the second, drawn 0, left
\* out after its draw
C17_Witness ==
    /\ ret.op = "instantiate_enemy_group"
    /\ req.group_id = "goblin_pack"
    /\ ret.err = ""
    /\ pos = 2
    /\ Len(ret.val) = 1
    /\ ret.val[1].count = 2

-----------------------------------------------------------------------------
(* SpecLoot: _generate_combat_encounter or _generate_noncombat_encounter run *)
(* by a fresh generator of the same seed once per roll count 0, 1, ...,      *)
(* MaxRolls, the tables' templates and entries asking for that many rolls.   *)

\* the templates or entries with loot_rolls set to k
SetRolls(tpls, k) == [i \in DOMAIN tpls |-> ("loot_rolls" :> k) @@ tpls[i]]

\* the tables whose combat templates and social entries ask for k rolls
TablesWithRolls(k) ==
    [Tables EXCEPT
        !.encounter_templates =
            [encounter_tables |-> SetRolls(EncounterTemplates.encounter_tables, k)],
        !.social_tables = [entries |-> SetRolls(SocialTables.entries, k)]]

InitLoot ==
    /\ seed \in Seeds
    /\ req \in [kind : {"combat", "social"}, level : Levels, biome : Biomes,
                slot : SlotNames]
    /\ hashOrder = <<"ambush", "dark">>
    /\ pos = 0
    /\ ret = NoRet
    /\ outs = <<>>
    /\ cg = NoFrame

\* the run with k rolls has returned (or raised) r
LootRunDone(k, r) ==
    /\ outs' = Append(outs, [rolls |-> k, err |-> r.err, msg |-> r.msg,
                             val |-> r.val, pos |-> r.pos])
    /\ pos' = r.pos
    /\ UNCHANGED <<seed, ret, hashOrder, req, cg>>

CombatLootRun ==
    /\ req.kind = "combat"
    /\ Len(outs) <= MaxRolls
    /\ LootRunDone(Len(outs),
                   GenerateCombatEncounter(TablesWithRolls(Len(outs)), LootData,
                                           hashOrder, req.level, req.biome,
                                           req.slot, seed, 0))

NoncombatLootRun ==
    /\ req.kind = "social"
    /\ Len(outs) <= MaxRolls
    /\ LootRunDone(Len(outs),
                   GenerateNoncombatEncounter(TablesWithRolls(Len(outs)), LootData,
                                              hashOrder, req.level, req.biome,
                                              req.slot, "social", seed, 0))

NextLoot ==
    \/ CombatLootRun
    \/ NoncombatLootRun

SpecLoot == InitLoot /\ [][NextLoot]_vars

\* the template or entry that the encounter of a run names
ChosenTemplate(o) ==
    IF o.val.type = "combat"
    THEN LET t == EncounterTemplates.encounter_tables
         IN  t[CHOOSE i \in DOMAIN t : t[i].id = o.val.meta.template_id[1]]
    ELSE LET t == SocialTables.entries
         IN  t[CHOOSE i \in DOMAIN t : t[i].id = o.val.meta.noncombat_id[1]]

\* the number of entries of the enemy group of a template
GroupSize(tpl) ==
    LET g == EnemyGroups.groups
    IN  Len(g[CHOOSE i \in DOMAIN g : g[i].id = tpl.enemy_group_id].enemies)

\* the draws the selection of the template or entry makes: one, or none
\* when no candidate has a weight above 0
SelectionDraws ==
    LET pool == IF req.kind = "combat" THEN EncounterTemplates.encounter_tables
                ELSE SocialTables.entries
        weight(i) == IF req.kind = "combat"
                     THEN TemplateWeight(Tables, pool[i], req.slot, req.biome)
                     ELSE EntryWeight(pool[i])
    IN  IF \E i \in DOMAIN pool :
               /\ Passes(pool[i], req.level, req.biome, req.slot)
               /\ weight(i) > 0
        THEN 1 ELSE 0

\* the draws a run makes before it comes to the loot: those of the
\* selection, one per enemy group entry of a combat template, and one for
\* the environment unless the entry names a preset that exists
DrawsBeforeLoot(o) ==
    LET tpl == ChosenTemplate(o)
        named == /\ "environment_preset_id" \in DOMAIN tpl
                 /\ \E i \in DOMAIN EnvironmentPresets.presets :
                        EnvironmentPresets.presets[i].id = tpl.environment_preset_id
    IN  SelectionDraws
          + (IF o.val.type = "combat" THEN GroupSize(tpl) ELSE 0)
          + (IF o.val.type # "combat" /\ named THEN 0 ELSE 1)

\* the entry of a run awards loot
AwardsLoot(o) ==
    \/ o.val.type = "combat"
    \/ "award_loot" \in DOMAIN ChosenTemplate(o) /\ ChosenTemplate(o).award_loot

\* draw number n of the generator's stream, as a sub-seed
SubSeedDrawn(n) == (Tape(seed, n) * 999999) \div (RawRange - 1)

\* C18: an encounter that gets loot (a combat encounter, or a noncombat one
\* whose entry flags award_loot) costs the generator's stream exactly one
\* draw more, the sub-seed in 0..999999; the loot record's seed is that
\* sub-seed, and the stream ends at the same position whatever the roll
\* count.  A noncombat encounter whose entry does not flag award_loot has no
\* loot and makes no such draw.
C18_SubSeededLoot ==
    \A k \in DOMAIN outs :
        LET o == outs[k]
        IN  /\ o.pos = outs[1].pos
            /\ o.err = "" /\ o.val.type # "empty" =>
                   IF AwardsLoot(o)
                   THEN /\ o.pos = DrawsBeforeLoot(o) + 1
                        /\ o.val.loot # None
                        /\ o.val.loot[1].seed = SubSeedDrawn(o.pos)
                        /\ o.val.loot[1].seed \in 0..999999
                        /\ Len(o.val.loot[1].parcels)
                               = (IF o.rolls >= 1 THEN o.rolls ELSE 1)
                   ELSE /\ o.pos = DrawsBeforeLoot(o)
                        /\ o.val.loot = None

\* a combat encounter generated with 0, 1 and 2 rolls: the loot has a
\* sub-seed that is not the generator's seed and differs in its parcels, and
\* the stream ends at the same position
C18_Witness ==
    /\ Len(outs) >= 3
    /\ req.kind = "combat"
    /\ \A k \in 1..3 : outs[k].err = ""
    /\ outs[1].val.loot[1].seed # seed
    /\ Len(outs[1].val.loot[1].parcels) = 1
    /\ Len(outs[3].val.loot[1].parcels) = 2
    /\ outs[1].pos = outs[3].pos

=============================================================================
